---- MODULE Spec2Model ----
(***************************************************************************)
(* State-machine model of MWWorld::WeatherManager and RegionWeather        *)
(* (apps/openmw/mwworld/weather.cpp): the current/next/queued weather      *)
(* transition machine, the regional weather selection and its timers.      *)
(*                                                                         *)
(* Numbers.  The transition factor is a float in the code; here it is an   *)
(* integer number of 1/FactorOne units, so FactorOne stands for 1.0f.  A   *)
(* weather's transition delta is given in factor units per unit of elapsed *)
(* time.  FactorOne is a multiple of every delta, which keeps the division *)
(* in updateWeatherTransitions exact (see DeltaDividesFactor).  Game hours *)
(* are integers.                                                           *)
(***************************************************************************)
EXTENDS Integers, Sequences, FiniteSets, TLC

VARIABLES
    mCurrentRegion,      \* std::string, lower-cased id of the tracked region
    mTimePassed,         \* hours accumulated by advanceTime
    mFastForward,        \* bool
    mWeatherUpdateTime,  \* hours until the next regional reselection
    mTransitionFactor,   \* in 1/FactorOne units
    mCurrentWeather,
    mNextWeather,
    mQueuedWeather,
    mRegions,            \* map: lower-cased region id -> RegionWeather
    mFlashBrightness,    \* mWeatherSettings[w].mFlashBrightness, in 1/FlashOne units
    mTimeSettings,       \* the night/day boundaries, in quarters of an hour
    playerCell,          \* the world's answer about the player's cell
    worldHour,           \* the world's clock: the hour of the day, in quarters of an hour
    value,               \* what the last TimeOfDayInterpolator::getValue call returned
    worldDay,            \* the world's clock: the days passed
    mMasser,             \* the MoonModel of a moon
    moonAngle,           \* what the last MoonModel::angle call returned
    oobDelta,            \* what reading mWeatherSettings[i] out of range yielded; 0: no such read yet
    status,              \* "running", or "aborted" once an assert has fired
    last                 \* the last call: its name, arguments, and the transition state it found

vars == <<mCurrentRegion, mTimePassed, mFastForward, mWeatherUpdateTime,
          mTransitionFactor, mCurrentWeather, mNextWeather, mQueuedWeather,
          mRegions, mFlashBrightness, mTimeSettings, playerCell, worldHour, value,
          worldDay, mMasser, moonAngle, oobDelta, status, last>>

-----------------------------------------------------------------------------
(* Program constants *)

invalidWeatherID == -1

\* mWeatherSettings.size(): the ten addWeather calls of the constructor
NumWeathers == 10

\* 1.0f, the factor a fresh transition starts with
FactorOne == 4

\* Weather_Hours_Between_Weather_Changes (fallback configuration), in hours
HoursBetweenWeatherChanges == 2

\* Weather_<name>_Transition_Delta (fallback configuration) of weather w
ConfiguredDelta(w) == IF w % 2 = 0 THEN 1 ELSE 2

Deltas == {ConfiguredDelta(w) : w \in 0..(NumWeathers - 1)}

\* 1 in "1 - (distance * 0.25f)": brightness is counted in units of 0.25f
FlashOne == 4

\* Weather_<name>_Thunder_Frequency: only Thunderstorm (5) has thunder
ThunderFrequency(w) == IF w = 5 THEN 1 ELSE 0

\* Weather_<name>_Thunder_Threshold, in 1/FactorOne units (0.5 for Thunderstorm)
ThunderThreshold(w) == IF w = 5 THEN 2 ELSE 0

\* Weather_<name>_Flash_Decrement, in brightness units per unit of elapsed time
FlashDecrement(w) == 1

\* Weather_<name>_Wind_Speed > fStromWindSpeed: Ashstorm, Blight and Blizzard are storms
IsStorm(w) == w \in {6, 7, 9}

\* the particle effect addWeather is given for the weather
ParticleEffect(w) ==
    CASE w = 6 -> "meshes\\ashcloud.nif"
      [] w = 7 -> "meshes\\blightcloud.nif"
      [] w = 8 -> "meshes\\snow.nif"
      [] w = 9 -> "meshes\\blizzard.nif"
      [] OTHER -> ""

\* Weather_<name>_Using_Precip: Rain and Thunderstorm
UsingPrecip(w) == w \in {4, 5}

\* Weather::mRainEffect
RainEffect(w) == IF UsingPrecip(w) THEN "meshes\\raindrop.nif" ELSE ""

\* Weather_<name>_Rain_Loop_Sound_ID
RainLoopSoundID(w) == IF w = 5 THEN "rain heavy" ELSE IF w = 4 THEN "Rain" ELSE ""

\* Weather_<name>_Ambient_Loop_Sound_ID
ConfiguredAmbientLoopSoundID(w) ==
    CASE w = 6 -> "ashstorm"
      [] w = 7 -> "Blight"
      [] w = 9 -> "BM Blizzard"
      [] OTHER -> "None"

\* Weather::mAmbientLoopSoundID as the constructor sets it
AmbientLoopSoundID(w) ==
    IF RainEffect(w) # ""
    THEN IF RainLoopSoundID(w) = "" THEN "rain" ELSE RainLoopSoundID(w)
    ELSE ConfiguredAmbientLoopSoundID(w)

\* Weather_<name>_Rain_Entrance_Speed, kept in Weather::mRainFrequency
RainFrequency(w) == IF w = 4 THEN 7 ELSE IF w = 5 THEN 5 ELSE 0

\* WeatherManager::mRainSpeed (Weather_Precip_Gravity), handed to every weather
RainSpeed == 575

-----------------------------------------------------------------------------
(* Bounds of the model *)

\* longest frame time passed to update
MaxDuration == 3
\* largest number of hours one advanceTime call adds
MaxHours == 2
\* cap on the hours accumulated in mTimePassed between two ticks
MaxTimePassed == 2
\* cap on how far below zero the weather-update timer is followed
MaxTimerDebt == 1
\* cap on how far below zero the transition factor is followed
MaxOvershoot == 4
\* cap on the flash brightness strikes add up to
MaxFlash == 5
\* last day the world's clock is followed to
MaxDay == 2
\* longest single time skip (hours of one advanceTime call) where skips are followed
MaxSkip == 5
\* cap on how far below zero the weather-update timer is followed under such skips
MaxSkipDebt == 4

Durations == {1, MaxDuration}
Hours == 1..MaxHours

\* all draws of Misc::Rng::rollDice(100) + 1
DiceRolls == 1..100

\* the draws the actions sample: the two on either side of the 50% mark
Rolls == {50, 51}

\* what the dice of a calculateThunder call give: -1 when rollProbability() is above
\* the thunder chance, else the strike's distance rollDice(4)
NoStrike == -1
StrikeRolls == {NoStrike} \cup (0..3)

\* Misc::StringUtils::lowerCase on the region ids that occur: "A", "B" and their
\* lower-case forms, and "x", which is in no region record
LowerCase(s) == IF s = "A" THEN "a" ELSE IF s = "B" THEN "b" ELSE s

\* the ESM store's region records: id and the ten chances
StoreRegions ==
    { [mId |-> "A", mChances |-> <<50, 50, 0, 0, 0, 0, 0, 0, 0, 0>>],
      [mId |-> "b", mChances |-> <<0, 0, 0, 0, 0, 0, 0, 0, 0, 100>>] }

\* chance tables passed to modRegion that leave the region's chances summing to
\* 100 or more (a short table overwrites only the first entries)
ModTables == { <<0, 100>> }

\* chance tables passed to modRegion that leave region "a" summing to less than 100
DeficitTables == { <<0, 50>> }

\* weather ids passed to changeWeather (unsigned)
WeatherArgs == {1, 9, 10}

\* region ids passed to changeWeather and modRegion
RegionArgs == {"A", "x"}

\* the interior cell the game starts in: interiors carry no region
StartCell == [mRegion |-> "", exterior |-> FALSE]

\* cells the player can be in: mRegion as the cell record spells it, and
\* isCellExterior() || isCellQuasiExterior()
Cells ==
    { [mRegion |-> "A", exterior |-> TRUE],
      StartCell }

-----------------------------------------------------------------------------
(* TimeOfDayInterpolator *)

\* game hours are counted in quarters of an hour
HourOne == 4

\* interpolated values are counted in 1/ValueOne of a keyframe unit; ValueOne is a
\* multiple of the three fade lengths (2, 12 and 8 quarters), so lerp is exact
ValueOne == 24

\* the fade lengths of getValue: 0.5f, 3.f and 2.f hours
SunriseFadeIn == 2
SunriseFadeOut == 12
SunsetFade == 8

\* lerp(x, y, factor) for factor = advance / length, in 1/ValueOne units
lerp(x, y, advance, length) ==
    (x * (length - advance) + y * advance) * (ValueOne \div length)

\* the time settings the constructor derives from Weather_Sunrise_Time,
\* Weather_Sunset_Time, Weather_Sunrise_Duration and Weather_Sunset_Duration
TimeOfDaySettings(sunriseTime, sunsetTime, sunriseDuration, sunsetDuration) ==
    [mNightStart  |-> sunsetTime + sunsetDuration,
     mNightEnd    |-> sunriseTime - (HourOne \div 2),
     mDayStart    |-> sunriseTime + sunriseDuration,
     mDayEnd      |-> sunsetTime,
     mSunriseTime |-> sunriseTime]

\* TimeOfDayInterpolator<float>::getValue, in 1/ValueOne units; T() is 0
getValue(self, gameHour, timeSettings) ==
    IF gameHour <= timeSettings.mNightEnd \/ gameHour >= timeSettings.mNightStart + HourOne
    THEN self.mNightValue * ValueOne
    ELSE IF gameHour >= timeSettings.mNightEnd /\ gameHour <= timeSettings.mDayStart + HourOne
    THEN IF gameHour <= timeSettings.mSunriseTime
         THEN lerp(self.mSunriseValue, self.mNightValue,
                   timeSettings.mSunriseTime - gameHour, SunriseFadeIn)
         ELSE lerp(self.mSunriseValue, self.mDayValue,
                   gameHour - timeSettings.mSunriseTime, SunriseFadeOut)
    ELSE IF gameHour >= timeSettings.mDayStart + HourOne
            /\ gameHour <= timeSettings.mDayEnd - HourOne
    THEN self.mDayValue * ValueOne
    ELSE IF gameHour >= timeSettings.mDayEnd - HourOne
            /\ gameHour <= timeSettings.mNightStart + HourOne
    THEN IF gameHour <= timeSettings.mDayEnd + HourOne
         THEN lerp(self.mSunsetValue, self.mDayValue,
                   (timeSettings.mDayEnd + HourOne) - gameHour, SunsetFade)
         ELSE lerp(self.mSunsetValue, self.mNightValue,
                   gameHour - (timeSettings.mDayEnd + HourOne), SunsetFade)
    ELSE 0

\* Weather_Sunrise_Time 6, Weather_Sunset_Time 18 and both durations 2 hours
DefaultTimeSettings ==
    TimeOfDaySettings(6 * HourOne, 18 * HourOne, 2 * HourOne, 2 * HourOne)

-----------------------------------------------------------------------------
(* MoonModel *)

\* a moon's speed is counted in 1/SpeedOne, so that the constructor's limit of
\* 180 / 23 is a whole number
SpeedOne == 230

\* angles are counted in 1/AngleOne of a degree, which keeps rotation exact
AngleOne == 184

\* 180 degrees: the horizon the moon sets at
HalfTurn == 180 * AngleOne

\* 180.0f / 23.0f, the most the constructor lets mSpeed be
SpeedLimit == (180 * SpeedOne) \div 23

\* startDay of moonRiseHour
startDay == 16

\* MoonModel::MoonModel, as far as the angle depends on it: Moons_<name>_Speed and
\* Moons_<name>_Daily_Increment (in quarters of an hour)
NewMoonModel(speed, dailyIncrement) ==
    [mSpeed          |-> IF speed < SpeedLimit THEN speed ELSE SpeedLimit,
     mDailyIncrement |-> dailyIncrement]

\* MoonModel::moonRiseHour, in quarters of an hour
moonRiseHour(moon, daysPassed) ==
    moon.mDailyIncrement
        + (((daysPassed - 1 + startDay) * moon.mDailyIncrement) % (24 * HourOne))

\* MoonModel::rotation: 15 degrees per hour and unit of speed
rotation(moon, hours) ==
    (15 * moon.mSpeed * hours * AngleOne) \div (SpeedOne * HourOne)

\* MoonModel::angle for the time stamp (day, hour)
angle(moon, day, hour) ==
    LET moonRiseHourToday == moonRiseHour(moon, day)
        moonRiseHourYesterday == moonRiseHour(moon, day - 1)
        moonRiseAngleYesterday == rotation(moon, 24 * HourOne - moonRiseHourYesterday)
        moonRiseAngleToday ==
            IF hour < moonRiseHourToday
            THEN IF moonRiseHourYesterday < 24 * HourOne /\ moonRiseAngleYesterday < HalfTurn
                 THEN rotation(moon, hour) + moonRiseAngleYesterday
                 ELSE 0
            ELSE rotation(moon, hour - moonRiseHourToday)
    IN IF moonRiseAngleToday >= HalfTurn THEN 0 ELSE moonRiseAngleToday

\* Moons_Masser_Speed 0.5 and Moons_Masser_Daily_Increment 1
DefaultMasser == NewMoonModel(SpeedOne \div 2, HourOne)

-----------------------------------------------------------------------------
(* RegionWeather *)

\* RegionWeather::RegionWeather(const ESM::Region&)
NewRegionWeather(region) ==
    [mWeather |-> invalidWeatherID, mChances |-> region.mChances]

RECURSIVE ChooseWalk(_, _, _, _)
\* the loop of chooseNewWeather: i and sum as the loop holds them
ChooseWalk(chances, chance, i, sum) ==
    IF i >= Len(chances) THEN i
    ELSE LET s == sum + chances[i + 1]
         IN IF chance <= s THEN i ELSE ChooseWalk(chances, chance, i + 1, s)

\* chooseNewWeather that stops only when the sum exceeds the draw
chooseNewWeather_SumAboveDraw(rw, chance) ==
    [rw EXCEPT !.mWeather = ChooseWalk(rw.mChances, chance + 1, 0, 0)]

\* RegionWeather::chooseNewWeather, chance = rollDice(100) + 1
chooseNewWeather(rw, chance) ==
    [rw EXCEPT !.mWeather = ChooseWalk(rw.mChances, chance, 0, 0)]

\* RegionWeather::setWeather
setWeather(rw, weatherID) == [rw EXCEPT !.mWeather = weatherID]

\* getWeather that draws on every call
getWeather_AlwaysDraws(rw, chance) == chooseNewWeather(rw, chance)

\* RegionWeather::getWeather: the region after the call; the value returned is
\* its mWeather
getWeather(rw, chance) ==
    IF rw.mWeather = invalidWeatherID THEN chooseNewWeather(rw, chance) ELSE rw

\* setChances that draws a new weather on every call
setChances_AlwaysRedraws(rw, chances, chance) ==
    chooseNewWeather(
        [rw EXCEPT !.mChances = [i \in 1..Len(rw.mChances) |->
                                    IF i <= Len(chances) THEN chances[i]
                                    ELSE rw.mChances[i]]],
        chance)

\* RegionWeather::setChances, for tables no longer than mChances
setChances(rw, chances, chance) ==
    LET written == [i \in 1..Len(rw.mChances) |->
                        IF i <= Len(chances) THEN chances[i] ELSE rw.mChances[i]]
        rw2 == [rw EXCEPT !.mChances = written]
        \* static_cast<size_t>(mWeather) >= mChances.size()
        outOfRange == rw.mWeather < 0 \/ rw.mWeather >= Len(written)
    IN IF outOfRange THEN chooseNewWeather(rw2, chance)
       ELSE IF written[rw.mWeather + 1] = 0 THEN chooseNewWeather(rw2, chance)
       ELSE rw2

-----------------------------------------------------------------------------
(* WeatherManager: the object as a record, so that calls compose *)

Self ==
    [mCurrentRegion     |-> mCurrentRegion,
     mTimePassed        |-> mTimePassed,
     mFastForward       |-> mFastForward,
     mWeatherUpdateTime |-> mWeatherUpdateTime,
     mTransitionFactor  |-> mTransitionFactor,
     mCurrentWeather    |-> mCurrentWeather,
     mNextWeather       |-> mNextWeather,
     mQueuedWeather     |-> mQueuedWeather,
     mRegions           |-> mRegions,
     mFlashBrightness   |-> mFlashBrightness,
     assertFailed       |-> FALSE,   \* an assert of the call was violated
     oobRead            |-> FALSE]   \* the call read mWeatherSettings out of range

\* importRegions, and the same loop in the constructor
importRegions ==
    [id \in {LowerCase(r.mId) : r \in StoreRegions} |->
        NewRegionWeather(CHOOSE r \in StoreRegions : LowerCase(r.mId) = id)]

\* i is an index of mWeatherSettings
InRange(i) == i >= 0 /\ i < NumWeathers

\* mWeatherSettings[i].transitionDelta(); out of range the read is undefined and
\* yields whatever lies there
transitionDelta(i, garbage) == IF InRange(i) THEN ConfiguredDelta(i) ELSE garbage

inTransition(m) == m.mNextWeather # invalidWeatherID

forceWeather(m, weatherID) ==
    [m EXCEPT !.mTransitionFactor = 0,
              !.mCurrentWeather = weatherID,
              !.mNextWeather = invalidWeatherID,
              !.mQueuedWeather = invalidWeatherID]

\* addWeatherTransition whose second branch lacks the inTransition() test
addWeatherTransition_QueuesWhenStable(m, weatherID) ==
    LET asserted == InRange(weatherID)
        m1 == [m EXCEPT !.assertFailed = m.assertFailed \/ ~asserted]
    IN IF ~inTransition(m1) /\ weatherID # m1.mCurrentWeather
       THEN [m1 EXCEPT !.mNextWeather = weatherID, !.mTransitionFactor = FactorOne]
       ELSE IF weatherID # m1.mNextWeather
       THEN [m1 EXCEPT !.mQueuedWeather = weatherID]
       ELSE m1

\* addWeatherTransition that starts a transition without resetting the factor
addWeatherTransition_KeepsFactor(m, weatherID) ==
    LET asserted == InRange(weatherID)
        m1 == [m EXCEPT !.assertFailed = m.assertFailed \/ ~asserted]
    IN IF ~inTransition(m1) /\ weatherID # m1.mCurrentWeather
       THEN [m1 EXCEPT !.mNextWeather = weatherID]
       ELSE IF inTransition(m1) /\ weatherID # m1.mNextWeather
       THEN [m1 EXCEPT !.mQueuedWeather = weatherID]
       ELSE m1

\* addWeatherTransition that queues only into an empty slot
addWeatherTransition_FirstQueuedStays(m, weatherID) ==
    LET asserted == InRange(weatherID)
        m1 == [m EXCEPT !.assertFailed = m.assertFailed \/ ~asserted]
    IN IF ~inTransition(m1) /\ weatherID # m1.mCurrentWeather
       THEN [m1 EXCEPT !.mNextWeather = weatherID, !.mTransitionFactor = FactorOne]
       ELSE IF inTransition(m1) /\ weatherID # m1.mNextWeather
               /\ m1.mQueuedWeather = invalidWeatherID
       THEN [m1 EXCEPT !.mQueuedWeather = weatherID]
       ELSE m1

addWeatherTransition(m, weatherID) ==
    LET asserted == InRange(weatherID)
        m1 == [m EXCEPT !.assertFailed = m.assertFailed \/ ~asserted]
    IN IF ~inTransition(m1) /\ weatherID # m1.mCurrentWeather
       THEN [m1 EXCEPT !.mNextWeather = weatherID, !.mTransitionFactor = FactorOne]
       ELSE IF inTransition(m1) /\ weatherID # m1.mNextWeather
       THEN [m1 EXCEPT !.mQueuedWeather = weatherID]
       ELSE m1

\* regionalWeatherChanged that compares with the tracked region, not with the region
\* of the player's cell
regionalWeatherChanged_TrackedRegion(m, cell, regionID, chance) ==
    IF m.mCurrentRegion # "" /\ m.mCurrentRegion = regionID
    THEN LET rw == getWeather(m.mRegions[regionID], chance)
         IN addWeatherTransition([m EXCEPT !.mRegions[regionID] = rw], rw.mWeather)
    ELSE m

\* regionalWeatherChanged(it->first, it->second): regionID is a key of mRegions
regionalWeatherChanged(m, cell, regionID, chance) ==
    \* player.isInCell() holds whenever the game runs
    LET playerRegion == LowerCase(cell.mRegion)
    IN IF playerRegion # "" /\ playerRegion = regionID
       THEN LET rw == getWeather(m.mRegions[regionID], chance)
            IN addWeatherTransition([m EXCEPT !.mRegions[regionID] = rw], rw.mWeather)
       ELSE m

\* changeWeather without the test of the weather id
changeWeather_NoRangeTest(m, cell, regionID, weatherID) ==
    LET lowerCaseRegionID == LowerCase(regionID)
    IN IF lowerCaseRegionID \in DOMAIN m.mRegions
       THEN regionalWeatherChanged(
                [m EXCEPT !.mRegions[lowerCaseRegionID] = setWeather(@, weatherID)],
                cell, lowerCaseRegionID, 1)
       ELSE m

changeWeather(m, cell, regionID, weatherID) ==
    IF weatherID < NumWeathers
    THEN LET lowerCaseRegionID == LowerCase(regionID)
         IN IF lowerCaseRegionID \in DOMAIN m.mRegions
            THEN regionalWeatherChanged(
                     [m EXCEPT !.mRegions[lowerCaseRegionID] =
                                   setWeather(@, weatherID)],
                     \* the region's weather is set, so getWeather draws nothing
                     cell, lowerCaseRegionID, 1)
            ELSE m
    ELSE m

modRegion(m, cell, regionID, chances, chance) ==
    LET lowerCaseRegionID == LowerCase(regionID)
    IN IF lowerCaseRegionID \in DOMAIN m.mRegions
       THEN regionalWeatherChanged(
                [m EXCEPT !.mRegions[lowerCaseRegionID] =
                              setChances(@, chances, chance)],
                cell, lowerCaseRegionID, chance)
       ELSE m

\* playerTeleported that goes through the transition machinery
playerTeleported_Transitions(m, cell, chance) ==
    IF cell.exterior
    THEN LET playerRegion == LowerCase(cell.mRegion)
         IN IF playerRegion \in DOMAIN m.mRegions /\ playerRegion # m.mCurrentRegion
            THEN LET rw == getWeather(m.mRegions[playerRegion], chance)
                 IN addWeatherTransition(
                        [m EXCEPT !.mCurrentRegion = playerRegion,
                                  !.mRegions[playerRegion] = rw],
                        rw.mWeather)
            ELSE m
    ELSE m

playerTeleported(m, cell, chance) ==
    IF cell.exterior
    THEN LET playerRegion == LowerCase(cell.mRegion)
         IN IF playerRegion \in DOMAIN m.mRegions /\ playerRegion # m.mCurrentRegion
            THEN LET rw == getWeather(m.mRegions[playerRegion], chance)
                 IN forceWeather(
                        [m EXCEPT !.mCurrentRegion = playerRegion,
                                  !.mRegions[playerRegion] = rw],
                        rw.mWeather)
            ELSE m
    ELSE m

advanceTime(m, hours, incremental) ==
    [m EXCEPT !.mTimePassed = @ + hours,
              !.mFastForward = IF ~incremental THEN TRUE ELSE @]

clear(m) ==
    LET m1 == [m EXCEPT !.mCurrentRegion = "",
                        !.mTimePassed = 0,
                        !.mWeatherUpdateTime = 0]
    IN [forceWeather(m1, 0) EXCEPT !.mRegions = importRegions]

\* updateWeatherTime: the manager after the call and the value returned
updateWeatherTime(m) ==
    LET t == m.mWeatherUpdateTime - m.mTimePassed
        m1 == [m EXCEPT !.mWeatherUpdateTime = t, !.mTimePassed = 0]
    IN IF t <= 0
       THEN [m |-> [m1 EXCEPT
                        !.mRegions = [id \in DOMAIN m1.mRegions |->
                                         setWeather(m1.mRegions[id], invalidWeatherID)],
                        !.mWeatherUpdateTime = t + HoursBetweenWeatherChanges],
             ret |-> TRUE]
       ELSE [m |-> m1, ret |-> FALSE]

\* updateWeatherRegion: the manager after the call and the value returned
updateWeatherRegion(m, playerRegion) ==
    IF playerRegion # "" /\ playerRegion # m.mCurrentRegion
    THEN [m |-> [m EXCEPT !.mCurrentRegion = playerRegion], ret |-> TRUE]
    ELSE [m |-> m, ret |-> FALSE]

\* updateWeatherTransitions whose tick leaves a running transition where it is
updateWeatherTransitions_Stalls(m, elapsedRealSeconds, garbage) ==
    IF ~m.mFastForward /\ inTransition(m)
    THEN m
    ELSE LET c == IF m.mQueuedWeather # invalidWeatherID THEN m.mQueuedWeather
                  ELSE IF m.mNextWeather # invalidWeatherID THEN m.mNextWeather
                  ELSE m.mCurrentWeather
         IN [m EXCEPT !.mCurrentWeather = c,
                      !.mNextWeather = invalidWeatherID,
                      !.mQueuedWeather = invalidWeatherID,
                      !.mFastForward = FALSE]

\* updateWeatherTransitions that starts the promoted transition at 1.0, dropping
\* the time left over
updateWeatherTransitions_DropsOvershoot(m, elapsedRealSeconds, garbage) ==
    IF ~m.mFastForward /\ inTransition(m)
    THEN LET delta == transitionDelta(m.mNextWeather, garbage)
             f == m.mTransitionFactor - elapsedRealSeconds * delta
             m0 == [m EXCEPT !.oobRead = ~InRange(m.mNextWeather)]
         IN IF f <= 0
            THEN LET m1 == [m0 EXCEPT !.mCurrentWeather = m.mNextWeather,
                                      !.mNextWeather = m.mQueuedWeather,
                                      !.mQueuedWeather = invalidWeatherID]
                 IN IF inTransition(m1)
                    THEN [m1 EXCEPT !.mTransitionFactor = FactorOne]
                    ELSE [m1 EXCEPT !.mTransitionFactor = 0]
            ELSE [m0 EXCEPT !.mTransitionFactor = f]
    ELSE LET c == IF m.mQueuedWeather # invalidWeatherID THEN m.mQueuedWeather
                  ELSE IF m.mNextWeather # invalidWeatherID THEN m.mNextWeather
                  ELSE m.mCurrentWeather
         IN [m EXCEPT !.mCurrentWeather = c,
                      !.mNextWeather = invalidWeatherID,
                      !.mQueuedWeather = invalidWeatherID,
                      !.mFastForward = FALSE]

\* updateWeatherTransitions whose fast-forward lands on the next weather even when
\* another is queued
updateWeatherTransitions_ForwardsToNext(m, elapsedRealSeconds, garbage) ==
    IF ~m.mFastForward /\ inTransition(m)
    THEN LET delta == transitionDelta(m.mNextWeather, garbage)
             f == m.mTransitionFactor - elapsedRealSeconds * delta
             m0 == [m EXCEPT !.oobRead = ~InRange(m.mNextWeather)]
         IN IF f <= 0
            THEN LET m1 == [m0 EXCEPT !.mCurrentWeather = m.mNextWeather,
                                      !.mNextWeather = m.mQueuedWeather,
                                      !.mQueuedWeather = invalidWeatherID]
                 IN IF inTransition(m1)
                    THEN LET newDelta == transitionDelta(m1.mNextWeather, garbage)
                             remainingSeconds == (-f) \div delta
                         IN [m1 EXCEPT !.mTransitionFactor =
                                           FactorOne - remainingSeconds * newDelta]
                    ELSE [m1 EXCEPT !.mTransitionFactor = 0]
            ELSE [m0 EXCEPT !.mTransitionFactor = f]
    ELSE LET c == IF m.mNextWeather # invalidWeatherID THEN m.mNextWeather
                  ELSE m.mCurrentWeather
         IN [m EXCEPT !.mCurrentWeather = c,
                      !.mNextWeather = invalidWeatherID,
                      !.mQueuedWeather = invalidWeatherID,
                      !.mFastForward = FALSE]

updateWeatherTransitions(m, elapsedRealSeconds, garbage) ==
    IF ~m.mFastForward /\ inTransition(m)
    THEN LET delta == transitionDelta(m.mNextWeather, garbage)
             f == m.mTransitionFactor - elapsedRealSeconds * delta
             m0 == [m EXCEPT !.oobRead = ~InRange(m.mNextWeather)]
         IN IF f <= 0
            THEN LET m1 == [m0 EXCEPT !.mCurrentWeather = m.mNextWeather,
                                      !.mNextWeather = m.mQueuedWeather,
                                      !.mQueuedWeather = invalidWeatherID,
                                      !.oobRead = @ \/ (m.mQueuedWeather # invalidWeatherID
                                                        /\ ~InRange(m.mQueuedWeather))]
                 IN IF inTransition(m1)
                    THEN LET newDelta == transitionDelta(m1.mNextWeather, garbage)
                             \* -(mTransitionFactor / delta), f a multiple of delta
                             remainingSeconds == (-f) \div delta
                         IN [m1 EXCEPT !.mTransitionFactor =
                                           FactorOne - remainingSeconds * newDelta]
                    ELSE [m1 EXCEPT !.mTransitionFactor = 0]
            ELSE [m0 EXCEPT !.mTransitionFactor = f]
    ELSE LET c == IF m.mQueuedWeather # invalidWeatherID THEN m.mQueuedWeather
                  ELSE IF m.mNextWeather # invalidWeatherID THEN m.mNextWeather
                  ELSE m.mCurrentWeather
         IN [m EXCEPT !.mCurrentWeather = c,
                      !.mNextWeather = invalidWeatherID,
                      !.mQueuedWeather = invalidWeatherID,
                      !.mFastForward = FALSE]

\* update, the part of an unpaused tick before updateWeatherTransitions: the timer,
\* the player's region, and the transition added for the tracked region
updateAdds(m, cell, chance) ==
    LET playerRegion == LowerCase(cell.mRegion)
        t == updateWeatherTime(m)
        \* || short-circuits: updateWeatherRegion runs only if the timer did not expire
        r == IF t.ret THEN t ELSE updateWeatherRegion(t.m, playerRegion)
    IN IF r.ret /\ r.m.mCurrentRegion \in DOMAIN r.m.mRegions
       THEN LET rw == getWeather(r.m.mRegions[r.m.mCurrentRegion], chance)
            IN addWeatherTransition(
                   [r.m EXCEPT !.mRegions[r.m.mCurrentRegion] = rw],
                   rw.mWeather)
       ELSE r.m

\* update that runs the timers and transitions of a tick also when paused
update_TicksWhenPaused(m, cell, duration, paused, chance, garbage) ==
    updateWeatherTransitions(updateAdds(m, cell, chance), duration, garbage)

\* update, up to updateWeatherTransitions: the part that changes the manager
update(m, cell, duration, paused, chance, garbage) ==
    IF ~paused
    THEN updateWeatherTransitions(updateAdds(m, cell, chance), duration, garbage)
    ELSE m

\* flashDecrement that subtracts without the floor at 0
flashDecrement_NoFloor(brightness, w, elapsedSeconds) ==
    brightness - FlashDecrement(w) * elapsedSeconds

\* Weather::flashDecrement: the brightness after the decay
flashDecrement(brightness, w, elapsedSeconds) ==
    LET decrement == FlashDecrement(w) * elapsedSeconds
    IN IF decrement > brightness THEN 0 ELSE brightness - decrement

\* Weather::lightningAndThunder: the brightness after a strike at the given distance
lightningAndThunder(brightness, distance) == brightness + (FlashOne - distance)

\* the test of calculateThunder that lets a weather thunder
Thunders(w, transitionRatio) ==
    transitionRatio >= ThunderThreshold(w) /\ ThunderFrequency(w) > 0

\* calculateThunder whose flash decays also when paused
calculateThunder_DecaysWhenPaused(m, w, transitionRatio, elapsedSeconds, isPaused, strike) ==
    LET before == m.mFlashBrightness[w]
        struck == ~isPaused /\ Thunders(w, transitionRatio) /\ strike # NoStrike
        after == IF Thunders(w, transitionRatio)
                 THEN LET decayed == flashDecrement(before, w, elapsedSeconds)
                      IN IF struck THEN lightningAndThunder(decayed, strike) ELSE decayed
                 ELSE IF isPaused THEN before ELSE 0
    IN [m |-> [m EXCEPT !.mFlashBrightness[w] = after], ret |-> after, struck |-> struck]

\* Weather::calculateThunder on mWeatherSettings[w]: the manager after the call, the
\* value returned, and whether a thunder sound was played.  strike is what the dice
\* give: NoStrike, or the distance of the strike.
calculateThunder(m, w, transitionRatio, elapsedSeconds, isPaused, strike) ==
    LET before == m.mFlashBrightness[w]
        struck == ~isPaused /\ Thunders(w, transitionRatio) /\ strike # NoStrike
        after == IF ~isPaused
                 THEN IF Thunders(w, transitionRatio)
                      THEN LET decayed == flashDecrement(before, w, elapsedSeconds)
                           IN IF strike # NoStrike
                              THEN lightningAndThunder(decayed, strike)
                              ELSE decayed
                      ELSE 0
                 ELSE before
    IN [m |-> [m EXCEPT !.mFlashBrightness[w] = after], ret |-> after, struck |-> struck]

\* calculateWeatherResult: what it does to the weathers' flash brightness.  A weather
\* id out of range makes it use an object outside mWeatherSettings, which is
\* undefined; the ten weathers are taken to keep their brightness then.
calculateWeatherResult(m, elapsedSeconds, isPaused, strikeCurrent, strikeNext) ==
    IF ~inTransition(m)
    THEN IF InRange(m.mCurrentWeather)
         THEN calculateThunder(m, m.mCurrentWeather, FactorOne,
                               elapsedSeconds, isPaused, strikeCurrent).m
         ELSE [m EXCEPT !.oobRead = TRUE]
    ELSE IF InRange(m.mCurrentWeather) /\ InRange(m.mNextWeather)
         THEN LET currentFlash == calculateThunder(m, m.mCurrentWeather,
                                                   m.mTransitionFactor,
                                                   elapsedSeconds, isPaused, strikeCurrent)
              IN calculateThunder(currentFlash.m, m.mNextWeather,
                                  FactorOne - m.mTransitionFactor,
                                  elapsedSeconds, isPaused, strikeNext).m
         ELSE [m EXCEPT !.oobRead = TRUE]

\* calculateResult: the fields of mResult that are not blended
calculateResult(weatherID) ==
    [mIsStorm            |-> IsStorm(weatherID),
     mParticleEffect     |-> ParticleEffect(weatherID),
     mRainEffect         |-> RainEffect(weatherID),
     mRainSpeed          |-> RainSpeed,
     mRainFrequency      |-> RainFrequency(weatherID),
     mAmbientLoopSoundID |-> AmbientLoopSoundID(weatherID),
     mAmbientSoundVolume |-> FactorOne,
     mEffectFade         |-> FactorOne]

\* calculateTransitionResult that takes the loop sound of the next weather from the
\* start of the transition
calculateTransitionResult_SoundOfNext(m, factor) ==
    LET current == calculateResult(m.mCurrentWeather)
        other == calculateResult(m.mNextWeather)
    IN IF 2 * factor < FactorOne
       THEN [current EXCEPT !.mAmbientSoundVolume = FactorOne - (factor * 2),
                            !.mEffectFade = FactorOne - (factor * 2),
                            !.mAmbientLoopSoundID = other.mAmbientLoopSoundID]
       ELSE [other EXCEPT !.mAmbientSoundVolume = 2 * factor - FactorOne,
                          !.mEffectFade = 2 * factor - FactorOne]

\* calculateTransitionResult whose effects do not fade with the sound in the first
\* half
calculateTransitionResult_EffectStays(m, factor) ==
    LET current == calculateResult(m.mCurrentWeather)
        other == calculateResult(m.mNextWeather)
    IN IF 2 * factor < FactorOne
       THEN [current EXCEPT !.mAmbientSoundVolume = FactorOne - (factor * 2)]
       ELSE [other EXCEPT !.mAmbientSoundVolume = 2 * factor - FactorOne,
                          !.mEffectFade = 2 * factor - FactorOne]

\* calculateTransitionResult, the fields that are not blended; factor is
\* 1 - mTransitionFactor in 1/FactorOne units, and factor < 0.5 is 2 * factor < 1
calculateTransitionResult(m, factor) ==
    LET current == calculateResult(m.mCurrentWeather)
        other == calculateResult(m.mNextWeather)
    IN IF 2 * factor < FactorOne
       THEN [current EXCEPT !.mAmbientSoundVolume = FactorOne - (factor * 2),
                            !.mEffectFade = FactorOne - (factor * 2)]
       ELSE [other EXCEPT !.mAmbientSoundVolume = 2 * factor - FactorOne,
                          !.mEffectFade = 2 * factor - FactorOne]

\* calculateWeatherResult: the fields of mResult that are not blended, for weather
\* ids within mWeatherSettings
WeatherResult(m) ==
    IF ~inTransition(m)
    THEN calculateResult(m.mCurrentWeather)
    ELSE calculateTransitionResult(m, FactorOne - m.mTransitionFactor)

\* the dice a calculateThunder call on weather w can throw
StrikeChoices(w, transitionRatio, isPaused) ==
    IF ~isPaused /\ InRange(w) /\ Thunders(w, transitionRatio)
    THEN StrikeRolls
    ELSE {NoStrike}

\* update as a whole, as far as it changes the manager and its weathers: the part up
\* to updateWeatherTransitions, the return for a cell that is not exterior, and
\* calculateWeatherResult
updateThenResult(m, cell, duration, paused, chance, garbage, strikeCurrent, strikeNext) ==
    LET m1 == update(m, cell, duration, paused, chance, garbage)
    IN IF cell.exterior
       THEN calculateWeatherResult(m1, duration, paused, strikeCurrent, strikeNext)
       ELSE m1

-----------------------------------------------------------------------------
(* Persistence *)

\* ESM::REC_WTHR, and the type of some record that is not the manager's
REC_WTHR == "WTHR"
REC_OTHER == "GMAP"

\* oldestCompatibleSaveFormat
oldestCompatibleSaveFormat == 2

\* RegionWeather::operator ESM::RegionWeatherState
RegionWeatherState(rw) == [mWeather |-> rw.mWeather, mChances |-> rw.mChances]

\* RegionWeather::RegionWeather(const ESM::RegionWeatherState&)
LoadedRegionWeather(state) == [mWeather |-> state.mWeather, mChances |-> state.mChances]

\* the ESM::WeatherState that write fills in
WeatherState(m) ==
    [mCurrentRegion     |-> m.mCurrentRegion,
     mTimePassed        |-> m.mTimePassed,
     mFastForward       |-> m.mFastForward,
     mWeatherUpdateTime |-> m.mWeatherUpdateTime,
     mTransitionFactor  |-> m.mTransitionFactor,
     mCurrentWeather    |-> m.mCurrentWeather,
     mNextWeather       |-> m.mNextWeather,
     mQueuedWeather     |-> m.mQueuedWeather,
     mRegions           |-> [id \in DOMAIN m.mRegions |->
                                RegionWeatherState(m.mRegions[id])]]

RECURSIVE SaveRegions(_, _)
\* the region entries of a saved record, one <<id, selected weather, chance table>>
\* per region of the ids still to write
SaveRegions(regions, ids) ==
    IF ids = {} THEN <<>>
    ELSE LET id == CHOOSE x \in ids : TRUE
         IN <<<<id, regions[id].mWeather, regions[id].mChances>>>>
                \o SaveRegions(regions, ids \ {id})

\* ESM::WeatherState::save: the record's content, field after field, then the regions
save(state) ==
    <<state.mCurrentRegion, state.mTimePassed, state.mFastForward,
      state.mWeatherUpdateTime, state.mTransitionFactor, state.mCurrentWeather,
      state.mNextWeather, state.mQueuedWeather>>
        \o SaveRegions(state.mRegions, DOMAIN state.mRegions)

\* number of fields a saved record holds before its region entries
SavedFields == 8

\* ESM::WeatherState::load: the state read back from a record's content
load(content) ==
    LET entries == SubSeq(content, SavedFields + 1, Len(content))
        ids == {entries[k][1] : k \in 1..Len(entries)}
    IN [mCurrentRegion     |-> content[1],
        mTimePassed        |-> content[2],
        mFastForward       |-> content[3],
        mWeatherUpdateTime |-> content[4],
        mTransitionFactor  |-> content[5],
        mCurrentWeather    |-> content[6],
        mNextWeather       |-> content[7],
        mQueuedWeather     |-> content[8],
        mRegions           |-> [id \in ids |->
                                   LET k == CHOOSE j \in 1..Len(entries) : entries[j][1] = id
                                   IN [mWeather |-> entries[k][2],
                                       mChances |-> entries[k][3]]]]

\* WeatherManager::write: the content of the REC_WTHR record it writes
write(m) == save(WeatherState(m))

\* readRecord that leaves the queued weather as it was
readRecord_KeepsQueued(m, type, format, content) ==
    IF type = REC_WTHR
    THEN IF format < oldestCompatibleSaveFormat
         THEN [m |-> m, ret |-> TRUE]
         ELSE LET state == load(content)
              IN [m |-> [m EXCEPT
                           !.mCurrentRegion = state.mCurrentRegion,
                           !.mTimePassed = state.mTimePassed,
                           !.mFastForward = state.mFastForward,
                           !.mWeatherUpdateTime = state.mWeatherUpdateTime,
                           !.mTransitionFactor = state.mTransitionFactor,
                           !.mCurrentWeather = state.mCurrentWeather,
                           !.mNextWeather = state.mNextWeather,
                           !.mRegions =
                               IF DOMAIN state.mRegions = {}
                               THEN importRegions
                               ELSE [id \in DOMAIN state.mRegions |->
                                        LoadedRegionWeather(state.mRegions[id])]],
                  ret |-> TRUE]
    ELSE [m |-> m, ret |-> FALSE]

\* readRecord that loads a weather record of any save format
readRecord_LoadsOldFormats(m, type, format, content) ==
    IF type = REC_WTHR
    THEN LET state == load(content)
         IN [m |-> [m EXCEPT
                      !.mCurrentRegion = state.mCurrentRegion,
                      !.mTimePassed = state.mTimePassed,
                      !.mFastForward = state.mFastForward,
                      !.mWeatherUpdateTime = state.mWeatherUpdateTime,
                      !.mTransitionFactor = state.mTransitionFactor,
                      !.mCurrentWeather = state.mCurrentWeather,
                      !.mNextWeather = state.mNextWeather,
                      !.mQueuedWeather = state.mQueuedWeather,
                      !.mRegions =
                          IF DOMAIN state.mRegions = {}
                          THEN importRegions
                          ELSE [id \in DOMAIN state.mRegions |->
                                   LoadedRegionWeather(state.mRegions[id])]],
             ret |-> TRUE]
    ELSE [m |-> m, ret |-> FALSE]

\* WeatherManager::readRecord on a record of the given type in a save of the given
\* format: the manager after the call and the value returned
readRecord(m, type, format, content) ==
    IF type = REC_WTHR
    THEN IF format < oldestCompatibleSaveFormat
         THEN [m |-> m, ret |-> TRUE]
         ELSE LET state == load(content)
              IN [m |-> [m EXCEPT
                           !.mCurrentRegion = state.mCurrentRegion,
                           !.mTimePassed = state.mTimePassed,
                           !.mFastForward = state.mFastForward,
                           !.mWeatherUpdateTime = state.mWeatherUpdateTime,
                           !.mTransitionFactor = state.mTransitionFactor,
                           !.mCurrentWeather = state.mCurrentWeather,
                           !.mNextWeather = state.mNextWeather,
                           !.mQueuedWeather = state.mQueuedWeather,
                           !.mRegions =
                               IF DOMAIN state.mRegions = {}
                               THEN importRegions
                               ELSE [id \in DOMAIN state.mRegions |->
                                        LoadedRegionWeather(state.mRegions[id])]],
                  ret |-> TRUE]
    ELSE [m |-> m, ret |-> FALSE]

-----------------------------------------------------------------------------
(* The state machine *)

\* the arguments of a call that select its case
NoArgs ==
    [regionID |-> "", weatherID |-> 0, paused |-> FALSE, incremental |-> FALSE,
     type |-> "", format |-> 0]

\* the transition state a call finds
Pre ==
    [mCurrentWeather   |-> mCurrentWeather,
     mNextWeather      |-> mNextWeather,
     mQueuedWeather    |-> mQueuedWeather,
     mTransitionFactor |-> mTransitionFactor,
     mFastForward      |-> mFastForward]

Call(op, args) == [op |-> op, args |-> args, pre |-> Pre]

\* the manager's fields take the values of record m
Becomes(m) ==
    /\ mCurrentRegion' = m.mCurrentRegion
    /\ mTimePassed' = m.mTimePassed
    /\ mFastForward' = m.mFastForward
    /\ mWeatherUpdateTime' = m.mWeatherUpdateTime
    /\ mTransitionFactor' = m.mTransitionFactor
    /\ mCurrentWeather' = m.mCurrentWeather
    /\ mNextWeather' = m.mNextWeather
    /\ mQueuedWeather' = m.mQueuedWeather
    /\ mRegions' = m.mRegions
    /\ mFlashBrightness' = m.mFlashBrightness

\* a call returns with the manager as m; when an assert of the call was violated,
\* a build with asserts aborts the process instead
Returns(m) ==
    \/ /\ Becomes(m)
       /\ status' = "running"
    \/ /\ m.assertFailed
       /\ Becomes(m)
       /\ status' = "aborted"

\* the constructor: forceWeather(0) after the member initialisers and the import
Init ==
    /\ mCurrentRegion = ""
    /\ mTimePassed = 0
    /\ mFastForward = FALSE
    /\ mWeatherUpdateTime = HoursBetweenWeatherChanges
    /\ mTransitionFactor = 0
    /\ mCurrentWeather = 0
    /\ mNextWeather = invalidWeatherID
    /\ mQueuedWeather = invalidWeatherID
    /\ mRegions = importRegions
    /\ mFlashBrightness = [w \in 0..(NumWeathers - 1) |-> 0]
    /\ mTimeSettings = DefaultTimeSettings
    /\ playerCell = StartCell
    /\ worldHour = 0
    /\ value = 0
    /\ worldDay = 0
    /\ mMasser = DefaultMasser
    /\ moonAngle = 0
    /\ oobDelta = 0
    /\ status = "running"
    /\ last = [op |-> "WeatherManager", args |-> NoArgs, pre |-> Pre]

ChangeWeather(regionID, weatherID) ==
    /\ status = "running"
    /\ \E m \in {changeWeather(Self, playerCell, regionID, weatherID)} : Returns(m)
    /\ last' = Call("changeWeather",
                    [NoArgs EXCEPT !.regionID = regionID, !.weatherID = weatherID])
    /\ UNCHANGED <<mTimeSettings, playerCell, worldHour, value, worldDay, mMasser,
                   moonAngle, oobDelta>>

ModRegion(regionID, chances) ==
    /\ status = "running"
    /\ \E chance \in Rolls :
          \E m \in {modRegion(Self, playerCell, regionID, chances, chance)} : Returns(m)
    /\ last' = Call("modRegion",
                    [NoArgs EXCEPT !.regionID = regionID])
    /\ UNCHANGED <<mTimeSettings, playerCell, worldHour, value, worldDay, mMasser,
                   moonAngle, oobDelta>>

PlayerTeleported ==
    /\ status = "running"
    /\ \E chance \in Rolls :
          \E m \in {playerTeleported(Self, playerCell, chance)} : Returns(m)
    /\ last' = Call("playerTeleported", NoArgs)
    /\ UNCHANGED <<mTimeSettings, playerCell, worldHour, value, worldDay, mMasser,
                   moonAngle, oobDelta>>

AdvanceTime(hours, incremental) ==
    /\ status = "running"
    /\ mTimePassed + hours <= MaxTimePassed
    /\ mWeatherUpdateTime - (mTimePassed + hours) >= -MaxTimerDebt
    /\ \E m \in {advanceTime(Self, hours, incremental)} : Returns(m)
    /\ last' = Call("advanceTime",
                    [NoArgs EXCEPT !.incremental = incremental])
    /\ UNCHANGED <<mTimeSettings, playerCell, worldHour, value, worldDay, mMasser,
                   moonAngle, oobDelta>>

\* what an out-of-range read can yield: what it yielded before, else anything
Garbage == IF oobDelta # 0 THEN {oobDelta} ELSE Deltas

Update(duration, paused) ==
    /\ status = "running"
    /\ \E chance \in Rolls, garbage \in Garbage :
          \E m1 \in {update(Self, playerCell, duration, paused, chance, garbage)} :
          \E strikeCurrent \in StrikeChoices(m1.mCurrentWeather,
                                      IF inTransition(m1) THEN m1.mTransitionFactor
                                      ELSE FactorOne, paused),
             strikeNext \in StrikeChoices(m1.mNextWeather,
                                      FactorOne - m1.mTransitionFactor, paused) :
          \E m \in {IF playerCell.exterior
                     THEN calculateWeatherResult(m1, duration, paused,
                                                 strikeCurrent, strikeNext)
                     ELSE m1} :
             /\ m.mTransitionFactor >= -MaxOvershoot
             /\ \A w \in DOMAIN m.mFlashBrightness : m.mFlashBrightness[w] <= MaxFlash
             /\ Returns(m)
             /\ oobDelta' = IF m.oobRead THEN garbage ELSE oobDelta
    /\ last' = Call("update",
                    [NoArgs EXCEPT !.paused = paused])
    /\ UNCHANGED <<mTimeSettings, playerCell, worldHour, value, worldDay, mMasser,
                   moonAngle>>

Clear ==
    /\ status = "running"
    /\ \E m \in {clear(Self)} : Returns(m)
    /\ last' = Call("clear", NoArgs)
    /\ UNCHANGED <<mTimeSettings, playerCell, worldHour, value, worldDay, mMasser,
                   moonAngle, oobDelta>>

\* the world moves the player to another cell
PlayerMoves(cell) ==
    /\ status = "running"
    /\ cell # playerCell
    /\ playerCell' = cell
    /\ last' = Call("playerMoves", NoArgs)
    /\ UNCHANGED <<mCurrentRegion, mTimePassed, mFastForward, mWeatherUpdateTime,
                   mTransitionFactor, mCurrentWeather, mNextWeather, mQueuedWeather,
                   mRegions, mFlashBrightness, mTimeSettings, worldHour, value,
                   worldDay, mMasser, moonAngle, oobDelta, status>>

Next ==
    \/ \E regionID \in RegionArgs, weatherID \in WeatherArgs :
          ChangeWeather(regionID, weatherID)
    \/ \E regionID \in RegionArgs, chances \in ModTables :
          ModRegion(regionID, chances)
    \/ PlayerTeleported
    \/ \E hours \in Hours, incremental \in BOOLEAN : AdvanceTime(hours, incremental)
    \/ \E duration \in Durations, paused \in BOOLEAN : Update(duration, paused)
    \/ Clear
    \/ \E cell \in Cells : PlayerMoves(cell)

Spec == Init /\ [][Next]_vars

\* the factor of a running transition is a whole number of steps of its delta,
\* so the division in updateWeatherTransitions has no remainder
DeltaDividesFactor ==
    inTransition(Self) =>
        mTransitionFactor % transitionDelta(mNextWeather, IF oobDelta # 0 THEN oobDelta ELSE 1) = 0

\* scripts that also leave a region's chances summing to less than 100, in a
\* session without time skips and resets
NextAnyChances ==
    \/ \E regionID \in RegionArgs, chances \in ModTables \cup DeficitTables :
          ModRegion(regionID, chances)
    \/ \E regionID \in RegionArgs, weatherID \in WeatherArgs :
          ChangeWeather(regionID, weatherID)
    \/ PlayerTeleported
    \/ \E duration \in Durations : Update(duration, FALSE)
    \/ \E cell \in Cells : PlayerMoves(cell)

SpecAnyChances == Init /\ [][NextAnyChances]_vars

-----------------------------------------------------------------------------
(* Properties *)

\* C1: a weather is queued (mQueuedWeather is not invalidWeatherID) only while a
\* transition is in progress (mNextWeather is not invalidWeatherID), in every state
\* reachable by changeWeather, modRegion, playerTeleported, advanceTime, update and clear.
C1_QueuedOnlyInTransition ==
    mQueuedWeather # invalidWeatherID => mNextWeather # invalidWeatherID

\* a changeWeather call queued a weather behind the running transition
C1_Witness ==
    /\ last.op = "changeWeather"
    /\ last.pre.mNextWeather # invalidWeatherID
    /\ last.pre.mQueuedWeather = invalidWeatherID
    /\ mQueuedWeather = last.args.weatherID
    /\ mNextWeather = last.pre.mNextWeather

\* a weather id is the invalid sentinel or an index of mWeatherSettings
ValidOrInvalid(id) == id = invalidWeatherID \/ InRange(id)

\* C2: the current, next and queued weather ids and every region's selected weather id
\* are the invalid sentinel (-1) or an index 0..9 of the ten weather configurations,
\* whatever the regions' chance tables are (tables that do not sum to 100 included).
C2_WeatherIdsValid ==
    /\ ValidOrInvalid(mCurrentWeather)
    /\ ValidOrInvalid(mNextWeather)
    /\ ValidOrInvalid(mQueuedWeather)
    /\ \A id \in DOMAIN mRegions : ValidOrInvalid(mRegions[id].mWeather)

\* C3: at the end of every operation, while a transition is in progress (the next
\* weather is set) the transition factor lies in (0, 1]: above 0 and at most 1.0,
\* also right after a queued weather was promoted with carried-over overshoot time.
C3_FactorInRange ==
    inTransition(Self) => (mTransitionFactor > 0 /\ mTransitionFactor <= FactorOne)

\* C4: addWeatherTransition(id), called while the manager is stable with an id other
\* than the current weather, sets next to id and the transition factor to 1.0 and
\* leaves current and queued as they were; called while stable with the id of the
\* current weather it changes nothing.
C4_AddTransitionWhenStable ==
    ~inTransition(Self) =>
        \A id \in 0..(NumWeathers - 1) :
            LET m == addWeatherTransition(Self, id)
            IN IF id # mCurrentWeather
               THEN /\ m.mNextWeather = id
                    /\ m.mTransitionFactor = FactorOne
                    /\ m.mCurrentWeather = mCurrentWeather
                    /\ m.mQueuedWeather = mQueuedWeather
               ELSE m = Self

\* changeWeather on the player's region reached addWeatherTransition in a stable
\* manager with another weather than the current one, and a transition began
C4_Witness ==
    /\ last.op = "changeWeather"
    /\ last.pre.mNextWeather = invalidWeatherID
    /\ last.args.weatherID # last.pre.mCurrentWeather
    /\ mNextWeather = last.args.weatherID
    /\ mTransitionFactor = FactorOne
    /\ mCurrentWeather = last.pre.mCurrentWeather
    /\ mQueuedWeather = invalidWeatherID

\* C5: addWeatherTransition(id), called while a transition is in progress with an id
\* other than next, sets queued to id and leaves current, next and the transition
\* factor as they were; there is one queued slot, so after several such calls the
\* id of the last call is the one queued.
C5_AddTransitionQueues ==
    inTransition(Self) =>
        \A id, id2 \in (0..(NumWeathers - 1)) \ {mNextWeather} :
            LET m == addWeatherTransition(Self, id)
                m2 == addWeatherTransition(m, id2)
            IN /\ m = [Self EXCEPT !.mQueuedWeather = id]
               /\ m2 = [Self EXCEPT !.mQueuedWeather = id2]

\* changeWeather on the player's region replaced the weather queued by an earlier
\* call while the same transition was still running
C5_Witness ==
    /\ last.op = "changeWeather"
    /\ last.pre.mNextWeather # invalidWeatherID
    /\ last.pre.mQueuedWeather # invalidWeatherID
    /\ last.pre.mQueuedWeather # last.args.weatherID
    /\ mQueuedWeather = last.args.weatherID
    /\ mNextWeather = last.pre.mNextWeather
    /\ mCurrentWeather = last.pre.mCurrentWeather
    /\ mTransitionFactor = last.pre.mTransitionFactor

\* a transition that is being ticked is left alone: no call that adds or forces a
\* weather comes between its ticks
LeftAlone == last.op # "update" \/ ~inTransition(Self)

\* ticks of a running game, with the calls that start and queue transitions
NextTicks ==
    \/ /\ LeftAlone
       /\ \E regionID \in RegionArgs, weatherID \in WeatherArgs :
             ChangeWeather(regionID, weatherID)
    \/ /\ LeftAlone
       /\ \E cell \in Cells : PlayerMoves(cell)
    \/ \E duration \in Durations : Update(duration, FALSE)

\* the main loop calls update every frame
Tick == \E duration \in Durations : Update(duration, FALSE)

SpecTicks == Init /\ [][NextTicks]_vars /\ WF_vars(Tick)

\* what one updateWeatherTransitions tick of a given elapsed time does to a
\* transition in progress
TickAdvances(elapsedRealSeconds, garbage) ==
    LET delta == transitionDelta(mNextWeather, garbage)
        m == updateWeatherTransitions(Self, elapsedRealSeconds, garbage)
    IN IF mTransitionFactor - elapsedRealSeconds * delta > 0
       THEN /\ m.mTransitionFactor < mTransitionFactor
            /\ m.mNextWeather = mNextWeather
            /\ m.mCurrentWeather = mCurrentWeather
       ELSE /\ m.mCurrentWeather = mNextWeather
            /\ mQueuedWeather = invalidWeatherID =>
                  (m.mNextWeather = invalidWeatherID /\ m.mTransitionFactor = 0)

\* C6: while a transition is in progress, every updateWeatherTransitions tick with a
\* positive elapsed time strictly decreases the transition factor until it reaches
\* <= 0; the tick that reaches it makes the former next weather current and, nothing
\* being queued, makes next invalid and the factor 0.  So a transition that is left
\* to its ticks completes: the manager becomes stable.
C6_TransitionCompletes ==
    /\ [](inTransition(Self) /\ ~mFastForward =>
             \A elapsedRealSeconds \in Durations, garbage \in Garbage :
                 TickAdvances(elapsedRealSeconds, garbage))
    /\ (inTransition(Self) ~> ~inTransition(Self))

\* a tick completed a transition behind which nothing was queued
C6_Witness ==
    /\ last.op = "update"
    /\ last.pre.mNextWeather # invalidWeatherID
    /\ last.pre.mQueuedWeather = invalidWeatherID
    /\ mCurrentWeather = last.pre.mNextWeather
    /\ mNextWeather = invalidWeatherID
    /\ mTransitionFactor = 0

\* C7: when a tick that is not fast-forwarded brings the transition factor to <= 0
\* while a weather is queued, current becomes the former next, next the former queued,
\* queued is cleared, and the new factor is 1 - overshootSeconds * newDelta, where
\* overshootSeconds = -(factor / oldDelta) is the elapsed time left over and newDelta
\* is the delta of the promoted weather: (1 - new factor) * oldDelta = -factor * newDelta.
C7_PromotionCarriesOvershoot ==
    inTransition(Self) /\ ~mFastForward /\ mQueuedWeather # invalidWeatherID =>
        \A elapsedRealSeconds \in Durations, garbage \in Garbage :
            LET oldDelta == transitionDelta(mNextWeather, garbage)
                newDelta == transitionDelta(mQueuedWeather, garbage)
                factor == mTransitionFactor - elapsedRealSeconds * oldDelta
                m == updateWeatherTransitions(Self, elapsedRealSeconds, garbage)
            IN factor <= 0 =>
                  /\ m.mCurrentWeather = mNextWeather
                  /\ m.mNextWeather = mQueuedWeather
                  /\ m.mQueuedWeather = invalidWeatherID
                  /\ (FactorOne - m.mTransitionFactor) * oldDelta = (-factor) * newDelta

\* an update tick promoted the queued weather and took the overshoot off its factor
C7_Witness ==
    /\ last.op = "update"
    /\ ~last.args.paused
    /\ ~last.pre.mFastForward
    /\ last.pre.mNextWeather # invalidWeatherID
    /\ last.pre.mQueuedWeather # invalidWeatherID
    /\ mCurrentWeather = last.pre.mNextWeather
    /\ mNextWeather = last.pre.mQueuedWeather
    /\ mQueuedWeather = invalidWeatherID
    /\ mTransitionFactor < FactorOne
    /\ mTransitionFactor > 0

\* the weather a fast-forward lands on if the tick adds nothing: the queued one if
\* one is queued, else the next one
ForwardTarget == IF mQueuedWeather # invalidWeatherID THEN mQueuedWeather ELSE mNextWeather

\* C8 as stated: from any state with a transition in progress, advanceTime(h, false)
\* for any h followed by one unpaused update tick leaves current equal to the weather
\* queued before the tick if one was queued, else to the weather that was next, and
\* leaves next and queued invalid.
C8_FastForwardLandsOnQueuedOrNext ==
    inTransition(Self) =>
        \A hours \in Hours, duration \in Durations, chance \in Rolls, garbage \in Garbage :
            LET m == update(advanceTime(Self, hours, FALSE), playerCell,
                            duration, FALSE, chance, garbage)
            IN /\ m.mCurrentWeather = ForwardTarget
               /\ m.mNextWeather = invalidWeatherID
               /\ m.mQueuedWeather = invalidWeatherID

\* C8 as the code has it: advanceTime(h, false) followed by one unpaused update tick
\* leaves next and queued invalid and the fast-forward flag cleared; current is the
\* weather the tick itself selected for the tracked region, when the tick's timer
\* expired or the player's region changed and that weather is not the one that was
\* next; otherwise it is the weather queued before the tick, else the one that was next.
C8_FastForwardLandsOnLastAdded ==
    inTransition(Self) =>
        \A hours \in Hours, duration \in Durations, chance \in Rolls, garbage \in Garbage :
            LET m1 == advanceTime(Self, hours, FALSE)
                m == update(m1, playerCell, duration, FALSE, chance, garbage)
                expired == m1.mWeatherUpdateTime - m1.mTimePassed <= 0
                playerRegion == LowerCase(playerCell.mRegion)
                moved == playerRegion # "" /\ playerRegion # mCurrentRegion
                added == (expired \/ moved) /\ m.mCurrentRegion \in DOMAIN m.mRegions
                selected == m.mRegions[m.mCurrentRegion].mWeather
            IN /\ m.mNextWeather = invalidWeatherID
               /\ m.mQueuedWeather = invalidWeatherID
               /\ ~m.mFastForward
               /\ m.mCurrentWeather = IF added /\ selected # mNextWeather
                                      THEN selected
                                      ELSE ForwardTarget

\* an update tick after advanceTime(h, false) dropped a running transition and its
\* queued weather and landed on the weather its own timer expiry selected
C8_Witness ==
    /\ last.op = "update"
    /\ ~last.args.paused
    /\ last.pre.mFastForward
    /\ last.pre.mNextWeather # invalidWeatherID
    /\ last.pre.mQueuedWeather # invalidWeatherID
    /\ mNextWeather = invalidWeatherID
    /\ mQueuedWeather = invalidWeatherID
    /\ ~mFastForward
    /\ mCurrentWeather # last.pre.mQueuedWeather
    /\ mCurrentWeather # last.pre.mNextWeather

\* region ids a caller may pass: the store's ids in either case, and an unknown one
RegionNames == {"A", "a", "B", "b", "x"}

\* C9: changeWeather(region, id) with an id in 0..9 and a known region sets that
\* region's selected weather to id; if the region is the one the player is in, it also
\* applies addWeatherTransition(id) to the manager, and otherwise does nothing else.
C9_ChangeWeatherSetsRegion ==
    \A regionID \in RegionNames, id \in 0..(NumWeathers - 1) :
        LowerCase(regionID) \in DOMAIN mRegions =>
            LET m == changeWeather(Self, playerCell, regionID, id)
                set == [Self EXCEPT !.mRegions[LowerCase(regionID)].mWeather = id]
            IN m = IF LowerCase(playerCell.mRegion) = LowerCase(regionID)
                   THEN addWeatherTransition(set, id)
                   ELSE set

\* changeWeather set the weather of the region the player is in, which the manager
\* does not track yet, and started a transition to it
C9_Witness ==
    /\ last.op = "changeWeather"
    /\ LowerCase(last.args.regionID) \in DOMAIN mRegions
    /\ LowerCase(playerCell.mRegion) = LowerCase(last.args.regionID)
    /\ mCurrentRegion # LowerCase(last.args.regionID)
    /\ mRegions[LowerCase(last.args.regionID)].mWeather = last.args.weatherID
    /\ last.pre.mNextWeather = invalidWeatherID
    /\ mNextWeather = last.args.weatherID

\* weather ids outside 0..9, as the unsigned parameter of changeWeather receives them
InvalidWeatherArgs == {NumWeathers, NumWeathers + 1, 255}

\* C10: changeWeather with a weather id outside 0..9 or with a region id that is not
\* in the region map, and modRegion with a region id that is not in the region map,
\* leave the whole manager as it was (current, next, queued, factor, timers,
\* fast-forward flag, tracked region, every region's chances and selection) and
\* raise no error.
C10_InvalidArgumentsIgnored ==
    /\ \A regionID \in RegionNames, id \in InvalidWeatherArgs :
          changeWeather(Self, playerCell, regionID, id) = Self
    /\ \A regionID \in RegionNames, id \in 0..(NumWeathers - 1) :
          LowerCase(regionID) \notin DOMAIN mRegions =>
              changeWeather(Self, playerCell, regionID, id) = Self
    /\ \A regionID \in RegionNames, chances \in ModTables \cup DeficitTables,
          chance \in DiceRolls :
          LowerCase(regionID) \notin DOMAIN mRegions =>
              modRegion(Self, playerCell, regionID, chances, chance) = Self

\* changeWeather was called with weather id 10 for the region the player is in,
\* during a transition, and nothing was queued
C10_Witness ==
    /\ last.op = "changeWeather"
    /\ ~InRange(last.args.weatherID)
    /\ LowerCase(playerCell.mRegion) = LowerCase(last.args.regionID)
    /\ last.pre.mNextWeather # invalidWeatherID
    /\ last.pre.mQueuedWeather = invalidWeatherID
    /\ mQueuedWeather = invalidWeatherID
    /\ mNextWeather = last.pre.mNextWeather
    /\ status = "running"

\* cells a teleport may end in: exterior and interior cells of a known region in
\* either spelling, of the unknown region, and of no region
TeleportCells ==
    { [mRegion |-> r, exterior |-> e] : r \in RegionNames \cup {""}, e \in BOOLEAN }

\* C11: playerTeleported, with the player in an exterior (or quasi-exterior) cell whose
\* region is known and is not the tracked region, sets the tracked region to it and
\* switches at once: current is that region's weather (drawn if none was selected),
\* next and queued are invalid and the factor is 0, whatever transition or queue was
\* in progress.  In an interior cell, or with an unknown region, or with the tracked
\* region, playerTeleported changes nothing.
C11_TeleportForcesWeather ==
    \A cell \in TeleportCells, chance \in Rolls :
        LET playerRegion == LowerCase(cell.mRegion)
            m == playerTeleported(Self, cell, chance)
        IN IF cell.exterior /\ playerRegion \in DOMAIN mRegions
              /\ playerRegion # mCurrentRegion
           THEN LET rw == getWeather(mRegions[playerRegion], chance)
                IN m = [Self EXCEPT !.mCurrentRegion = playerRegion,
                                    !.mRegions[playerRegion] = rw,
                                    !.mCurrentWeather = rw.mWeather,
                                    !.mNextWeather = invalidWeatherID,
                                    !.mQueuedWeather = invalidWeatherID,
                                    !.mTransitionFactor = 0]
           ELSE m = Self

\* playerTeleported entered a region the manager did not track while a transition
\* with a queued weather was running, and dropped both
C11_Witness ==
    /\ last.op = "playerTeleported"
    /\ last.pre.mNextWeather # invalidWeatherID
    /\ last.pre.mQueuedWeather # invalidWeatherID
    /\ mCurrentRegion = LowerCase(playerCell.mRegion)
    /\ mCurrentWeather = mRegions[mCurrentRegion].mWeather
    /\ mNextWeather = invalidWeatherID
    /\ mQueuedWeather = invalidWeatherID
    /\ mTransitionFactor = 0

\* every region's selection set to the invalid sentinel
Expired(regions) ==
    [id \in DOMAIN regions |-> setWeather(regions[id], invalidWeatherID)]

\* C12: on an unpaused update tick at which the weather-update timer less the
\* accumulated time passed is <= 0, every region's selection is invalidated (also one
\* set by changeWeather), the time passed becomes 0, the timer grows by
\* hoursBetweenWeatherChanges, and addWeatherTransition is applied with the freshly
\* drawn weather of the region the player is in at that tick.
C12_TimerExpiryReselects ==
    mWeatherUpdateTime - mTimePassed <= 0 =>
        \A duration \in Durations, chance \in Rolls, garbage \in Garbage :
            LET m == update(Self, playerCell, duration, FALSE, chance, garbage)
                playerRegion == LowerCase(playerCell.mRegion)
                reset == [Self EXCEPT
                             !.mTimePassed = 0,
                             !.mWeatherUpdateTime =
                                 mWeatherUpdateTime - mTimePassed + HoursBetweenWeatherChanges,
                             !.mRegions = Expired(mRegions)]
            IN /\ m.mTimePassed = reset.mTimePassed
               /\ m.mWeatherUpdateTime = reset.mWeatherUpdateTime
               /\ playerRegion \in DOMAIN mRegions =>
                     LET rw == chooseNewWeather(reset.mRegions[playerRegion], chance)
                         triggered == addWeatherTransition(
                                          [reset EXCEPT !.mRegions[playerRegion] = rw],
                                          rw.mWeather)
                         expected == updateWeatherTransitions(triggered, duration, garbage)
                     IN /\ m.mRegions = expected.mRegions
                        /\ m.mCurrentWeather = expected.mCurrentWeather
                        /\ m.mNextWeather = expected.mNextWeather
                        /\ m.mQueuedWeather = expected.mQueuedWeather
                        /\ m.mTransitionFactor = expected.mTransitionFactor

\* weather ids passed to changeWeather where thunder is followed: Thunderstorm and Cloudy
ThunderWeatherArgs == {5, 1}

\* a game with thunderstorms: weather changes in the player's region, frames paused
\* and unpaused, and the longest time skip
NextThunder ==
    \/ \E weatherID \in ThunderWeatherArgs : ChangeWeather("A", weatherID)
    \/ \E cell \in Cells : PlayerMoves(cell)
    \/ AdvanceTime(MaxHours, FALSE)
    \/ \E duration \in Durations, paused \in BOOLEAN : Update(duration, paused)

SpecThunder == Init /\ [][NextThunder]_vars

\* C13: update(duration, paused = true) leaves the transition machine and the timers
\* untouched: current, next, queued, the transition factor, the fast-forward flag, the
\* accumulated time passed, the weather-update timer, the tracked region, every
\* region's selection and every weather's flash brightness are after the call what
\* they were before, for any duration and in any state.
C13_PausedUpdateChangesNothing ==
    \A duration \in Durations, chance \in Rolls, garbage \in Garbage,
       strikeCurrent \in StrikeRolls, strikeNext \in StrikeRolls :
        updateThenResult(Self, playerCell, duration, TRUE, chance, garbage,
                         strikeCurrent, strikeNext) = Self

\* a paused update ran in an exterior cell while a thunderstorm was flashing, a
\* transition was in progress and skipped hours were waiting to be counted
C13_Witness ==
    /\ last.op = "update"
    /\ last.args.paused
    /\ playerCell.exterior
    /\ mFlashBrightness[5] > 0
    /\ mNextWeather # invalidWeatherID
    /\ mTimePassed > 0
    /\ mFastForward

\* transition ratios calculateThunder is called with, in 1/FactorOne units
TransitionRatios == (-1)..(FactorOne + 1)

\* C14: calculateThunder called with isPaused = true returns the weather's flash
\* brightness as it was before the call and leaves it unchanged, for any
\* transitionRatio and elapsedSeconds and over consecutive paused calls; no strike is
\* drawn and no sound is played.
C14_PausedThunderKeepsBrightness ==
    \A w \in 0..(NumWeathers - 1), transitionRatio \in TransitionRatios,
       elapsedSeconds \in Durations, strike \in StrikeRolls :
        LET first == calculateThunder(Self, w, transitionRatio, elapsedSeconds, TRUE, strike)
            second == calculateThunder(first.m, w, transitionRatio, elapsedSeconds,
                                       TRUE, strike)
        IN /\ first.m = Self
           /\ first.ret = mFlashBrightness[w]
           /\ ~first.struck
           /\ second.m = Self
           /\ second.ret = mFlashBrightness[w]
           /\ ~second.struck

\* a paused update called calculateThunder on the current weather, a thunderstorm
\* with a flash still glowing
C14_Witness ==
    /\ last.op = "update"
    /\ last.args.paused
    /\ playerCell.exterior
    /\ mNextWeather = invalidWeatherID
    /\ mCurrentWeather = 5
    /\ mFlashBrightness[5] > 0

-----------------------------------------------------------------------------
(* Saving and loading *)

\* the manager as the constructor leaves it
Constructed ==
    [mCurrentRegion     |-> "",
     mTimePassed        |-> 0,
     mFastForward       |-> FALSE,
     mWeatherUpdateTime |-> HoursBetweenWeatherChanges,
     mTransitionFactor  |-> 0,
     mCurrentWeather    |-> 0,
     mNextWeather       |-> invalidWeatherID,
     mQueuedWeather     |-> invalidWeatherID,
     mRegions           |-> importRegions,
     mFlashBrightness   |-> [w \in 0..(NumWeathers - 1) |-> 0],
     assertFailed       |-> FALSE,
     oobRead            |-> FALSE]

\* the managers whose saves an earlier session left behind: a fresh one, and one
\* saved after the player was teleported into region A, changeWeather("A", 9)
\* started a transition, changeWeather("A", 1) queued another and an hour of rest
\* was added
SavedManagers ==
    LET cellA == CHOOSE c \in Cells : c.exterior
        arrived == playerTeleported(Constructed, cellA, 51)
        changing == changeWeather(arrived, cellA, "A", 9)
        queued == changeWeather(changing, cellA, "A", 1)
    IN { Constructed, advanceTime(queued, 1, FALSE) }

\* the record of a save converted from the original game: it carries no regions
ImportedSave == save([WeatherState(Constructed) EXCEPT !.mRegions = << >>])

\* contents of the weather records readRecord is given
SaveFiles == {write(m) : m \in SavedManagers} \cup {ImportedSave}

\* reader.getFormat() of the saves read: below, at and above oldestCompatibleSaveFormat
SaveFormats == {1, 2, 3}

RecordTypes == {REC_WTHR, REC_OTHER}

\* write changes nothing in the manager
Write ==
    /\ status = "running"
    /\ last' = Call("write", NoArgs)
    /\ UNCHANGED <<mCurrentRegion, mTimePassed, mFastForward, mWeatherUpdateTime,
                   mTransitionFactor, mCurrentWeather, mNextWeather, mQueuedWeather,
                   mRegions, mFlashBrightness, mTimeSettings, playerCell, worldHour,
                   value, worldDay, mMasser, moonAngle, oobDelta, status>>

ReadRecord(type, format, content) ==
    /\ status = "running"
    /\ \E r \in {readRecord(Self, type, format, content)} : Returns(r.m)
    /\ last' = Call("readRecord", [NoArgs EXCEPT !.type = type, !.format = format])
    /\ UNCHANGED <<mTimeSettings, playerCell, worldHour, value, worldDay, mMasser,
                   moonAngle, oobDelta>>

\* a session that is saved and loaded
NextSave ==
    \/ \E regionID \in RegionArgs, weatherID \in WeatherArgs :
          ChangeWeather(regionID, weatherID)
    \/ PlayerTeleported
    \/ \E hours \in Hours, incremental \in BOOLEAN : AdvanceTime(hours, incremental)
    \/ \E duration \in Durations : Update(duration, FALSE)
    \/ \E cell \in Cells : PlayerMoves(cell)
    \/ Write
    \/ \E type \in RecordTypes, format \in SaveFormats, content \in SaveFiles :
          ReadRecord(type, format, content)

SpecSave == Init /\ [][NextSave]_vars

\* what a save keeps of a manager
Persisted(m) ==
    [mCurrentRegion     |-> m.mCurrentRegion,
     mTimePassed        |-> m.mTimePassed,
     mFastForward       |-> m.mFastForward,
     mWeatherUpdateTime |-> m.mWeatherUpdateTime,
     mTransitionFactor  |-> m.mTransitionFactor,
     mCurrentWeather    |-> m.mCurrentWeather,
     mNextWeather       |-> m.mNextWeather,
     mQueuedWeather     |-> m.mQueuedWeather,
     mRegions           |-> m.mRegions]

C16_OldFormatSkipped ==
    \A content \in SaveFiles :
    \A format \in SaveFormats :
       /\ format < 2 =>
             readRecord(Self, REC_WTHR, format, content) = [m |-> Self, ret |-> TRUE]
       /\ readRecord(Self, REC_OTHER, format, content) = [m |-> Self, ret |-> FALSE]

\* a weather record of an old save was read by a manager in a state that none of
\* the records holds
C16_Witness ==
    /\ last.op = "readRecord"
    /\ last.args.type = REC_WTHR
    /\ last.args.format < 2
    /\ Persisted(Self) \notin {Persisted(load(content)) : content \in SaveFiles}
    /\ inTransition(Self)

-----------------------------------------------------------------------------
(* RegionWeather on its own *)

\* chance tables of region records: ten chances summing to 100
ChanceTables ==
    { <<50, 50, 0, 0, 0, 0, 0, 0, 0, 0>>,
      <<0, 0, 0, 0, 0, 0, 0, 0, 0, 100>>,
      <<100, 0, 0, 0, 0, 0, 0, 0, 0, 0>>,
      <<10, 0, 20, 0, 30, 0, 40, 0, 0, 0>>,
      <<0, 0, 0, 0, 0, 1, 0, 0, 99, 0>>,
      <<10, 10, 10, 10, 10, 10, 10, 10, 10, 10>> }

\* chance tables passed to setChances: full ones, and short ones that overwrite
\* only the first entries
SetChancesTables == ChanceTables \cup ModTables \cup DeficitTables \cup { << >> }

\* weather ids passed to setWeather: by changeWeather a valid id, by the expiry of
\* the weather-update timer invalidWeatherID
SetWeatherArgs == {invalidWeatherID} \cup (0..(NumWeathers - 1))

\* the one region of the store in this session
TheRegion == "a"

\* the constructor, with a store that holds one region record with any of the tables
InitRegion ==
    /\ mCurrentRegion = ""
    /\ mTimePassed = 0
    /\ mFastForward = FALSE
    /\ mWeatherUpdateTime = HoursBetweenWeatherChanges
    /\ mTransitionFactor = 0
    /\ mCurrentWeather = 0
    /\ mNextWeather = invalidWeatherID
    /\ mQueuedWeather = invalidWeatherID
    /\ \E chances \in ChanceTables :
          mRegions = [id \in {TheRegion} |->
                         NewRegionWeather([mId |-> "A", mChances |-> chances])]
    /\ mFlashBrightness = [w \in 0..(NumWeathers - 1) |-> 0]
    /\ mTimeSettings = DefaultTimeSettings
    /\ playerCell = StartCell
    /\ worldHour = 0
    /\ value = 0
    /\ worldDay = 0
    /\ mMasser = DefaultMasser
    /\ moonAngle = 0
    /\ oobDelta = 0
    /\ status = "running"
    /\ last = [op |-> "WeatherManager", args |-> NoArgs, pre |-> Pre]

\* a call of a RegionWeather method on the region: only the region changes
OnRegion(op, weatherID, rw) ==
    /\ mRegions' = [mRegions EXCEPT ![TheRegion] = rw]
    /\ last' = Call(op, [NoArgs EXCEPT !.regionID = TheRegion, !.weatherID = weatherID])
    /\ UNCHANGED <<mCurrentRegion, mTimePassed, mFastForward, mWeatherUpdateTime,
                   mTransitionFactor, mCurrentWeather, mNextWeather, mQueuedWeather,
                   mFlashBrightness, mTimeSettings, playerCell, worldHour, value,
                   worldDay, mMasser, moonAngle, oobDelta, status>>

\* RegionWeather::getWeather; the id returned is recorded as the call's weatherID
GetWeather ==
    \E chance \in DiceRolls :
    \E rw \in {getWeather(mRegions[TheRegion], chance)} :
       OnRegion("getWeather", rw.mWeather, rw)

SetWeather(weatherID) ==
    OnRegion("setWeather", weatherID, setWeather(mRegions[TheRegion], weatherID))

\* RegionWeather::setChances; the selection the call found is recorded as the
\* call's weatherID
SetChances(chances) ==
    \E chance \in DiceRolls :
       OnRegion("setChances", mRegions[TheRegion].mWeather,
                setChances(mRegions[TheRegion], chances, chance))

NextRegion ==
    \/ GetWeather
    \/ \E weatherID \in SetWeatherArgs : SetWeather(weatherID)
    \/ \E chances \in SetChancesTables : SetChances(chances)

SpecRegion == InitRegion /\ [][NextRegion]_vars

RECURSIVE SumOf(_)
SumOf(chances) == IF chances = << >> THEN 0 ELSE Head(chances) + SumOf(Tail(chances))

\* the table has no negative entry and sums to 100
SumsTo100(chances) ==
    /\ \A i \in 1..Len(chances) : chances[i] >= 0
    /\ SumOf(chances) = 100

\* C17: for a region whose chance table has no negative entry and sums to 100, of
\* the 100 draws 1..100 exactly chances[i] make chooseNewWeather select index i,
\* for every index i of the table; so an index with chance 0 is selected by no draw,
\* and every draw selects an index within 0..9.
C17_DrawsMatchChances ==
    \A id \in DOMAIN mRegions :
       LET rw == mRegions[id]
       IN SumsTo100(rw.mChances) =>
             /\ \A i \in 0..(Len(rw.mChances) - 1) :
                   Cardinality({chance \in DiceRolls :
                                   chooseNewWeather(rw, chance).mWeather = i})
                      = rw.mChances[i + 1]
             /\ \A chance \in DiceRolls :
                   chooseNewWeather(rw, chance).mWeather \in 0..9

\* getWeather drew for a region whose table sums to 100 and has chance-0 entries
\* before the index drawn
C17_Witness ==
    /\ last.op = "getWeather"
    /\ SumsTo100(mRegions[TheRegion].mChances)
    /\ mRegions[TheRegion].mWeather = 6
    /\ mRegions[TheRegion].mChances[6] = 0
    /\ mRegions[TheRegion].mChances[7] = 40

\* the selection is an index of the table and its chance there is not 0
Supported(chances, weather) ==
    /\ weather >= 0
    /\ weather < Len(chances)
    /\ chances[weather + 1] # 0

\* C18: setChances with a table no longer than the region's overwrites the entries
\* the new table has (all of them when the new table is a full one).  Then, if the
\* selection before the call is not an index of the table (the invalid sentinel
\* included) or has chance 0 in the table as overwritten, the selection is redrawn:
\* it becomes what chooseNewWeather draws from the overwritten table; otherwise the
\* selection stays what it was, whatever the dice give.  When the table as
\* overwritten has no negative entry and sums to 100, the selection after the call
\* is an index with a chance that is not 0.
C18_SetChancesRedraws ==
    \A id \in DOMAIN mRegions :
    \A chances \in SetChancesTables :
    \A chance \in DiceRolls :
       LET rw == mRegions[id]
           after == setChances(rw, chances, chance)
       IN /\ Len(after.mChances) = Len(rw.mChances)
          /\ \A i \in 1..Len(rw.mChances) :
                after.mChances[i] = IF i <= Len(chances) THEN chances[i]
                                    ELSE rw.mChances[i]
          /\ IF Supported(after.mChances, rw.mWeather)
             THEN after.mWeather = rw.mWeather
             ELSE after.mWeather =
                      chooseNewWeather([rw EXCEPT !.mChances = after.mChances],
                                       chance).mWeather
          /\ SumsTo100(after.mChances) => Supported(after.mChances, after.mWeather)

\* setChances gave a full new table in which the weather selected before had chance
\* 0, and the selection changed
C18_Witness ==
    /\ last.op = "setChances"
    /\ mRegions[TheRegion].mChances \in ChanceTables
    /\ last.args.weatherID # invalidWeatherID
    /\ mRegions[TheRegion].mChances[last.args.weatherID + 1] = 0
    /\ mRegions[TheRegion].mWeather # last.args.weatherID

\* C19: getWeather on a region whose selection is invalidWeatherID draws (the region
\* afterwards is what chooseNewWeather leaves) and returns the weather drawn; on a
\* region with a selection it returns that selection and leaves the region as it is,
\* whatever the dice would give.  The id returned is never invalidWeatherID, and a
\* second getWeather right after the first returns the same id and changes nothing.
C19_GetWeatherLazyAndStable ==
    \A id \in DOMAIN mRegions :
    \A chance \in DiceRolls :
       LET rw == mRegions[id]
           first == getWeather(rw, chance)
       IN /\ IF rw.mWeather = invalidWeatherID
             THEN first = chooseNewWeather(rw, chance)
             ELSE first = rw
          /\ first.mWeather # invalidWeatherID
          /\ \A again \in DiceRolls : getWeather(first, again) = first

\* getWeather returned the region's selection, one of several weathers the region's
\* table can give
C19_Witness ==
    /\ last.op = "getWeather"
    /\ mRegions[TheRegion].mWeather = last.args.weatherID
    /\ mRegions[TheRegion].mWeather # invalidWeatherID
    /\ \E chance \in DiceRolls :
          chooseNewWeather(mRegions[TheRegion], chance).mWeather
             # mRegions[TheRegion].mWeather

-----------------------------------------------------------------------------
(* The interpolator over the day *)

\* fallback values of Weather_Sunrise_Time, Weather_Sunset_Time and the two
\* durations, in hours
SunriseTimes == {6}
SunsetTimes == {9, 18}
SunriseDurations == {2, 3}
SunsetDurations == {2, 3}

\* nightEnd < dayStart <= dayEnd < nightStart
Ordered(timeSettings) ==
    /\ timeSettings.mNightEnd < timeSettings.mDayStart
    /\ timeSettings.mDayStart <= timeSettings.mDayEnd
    /\ timeSettings.mDayEnd < timeSettings.mNightStart

\* the time settings the constructor can derive from these fallback values
ConfiguredTimeSettings ==
    { TimeOfDaySettings(sunriseTime * HourOne, sunsetTime * HourOne,
                        sunriseDuration * HourOne, sunsetDuration * HourOne) :
        sunriseTime \in SunriseTimes, sunsetTime \in SunsetTimes,
        sunriseDuration \in SunriseDurations, sunsetDuration \in SunsetDurations }

\* the hours of a day
GameHours == 0..(24 * HourOne - 1)

\* interpolators of a weather: their four keyframe values, rising towards the day
\* or falling
Interpolators ==
    { [mSunriseValue |-> 2, mDayValue |-> 4, mSunsetValue |-> 3, mNightValue |-> 1],
      [mSunriseValue |-> 3, mDayValue |-> 1, mSunsetValue |-> 2, mNightValue |-> 4] }

\* the constructor, for any of the configured time settings
InitSky ==
    /\ mCurrentRegion = ""
    /\ mTimePassed = 0
    /\ mFastForward = FALSE
    /\ mWeatherUpdateTime = HoursBetweenWeatherChanges
    /\ mTransitionFactor = 0
    /\ mCurrentWeather = 0
    /\ mNextWeather = invalidWeatherID
    /\ mQueuedWeather = invalidWeatherID
    /\ mRegions = importRegions
    /\ mFlashBrightness = [w \in 0..(NumWeathers - 1) |-> 0]
    /\ mTimeSettings \in {t \in ConfiguredTimeSettings : Ordered(t)}
    /\ playerCell = StartCell
    /\ worldHour = 0
    /\ value = 0
    /\ worldDay = 0
    /\ mMasser = DefaultMasser
    /\ moonAngle = 0
    /\ oobDelta = 0
    /\ status = "running"
    /\ last = [op |-> "WeatherManager", args |-> NoArgs, pre |-> Pre]

\* the world's clock moves on by a quarter of an hour
TimePasses ==
    /\ worldHour + 1 < 24 * HourOne \/ worldDay < MaxDay
    /\ worldHour' = (worldHour + 1) % (24 * HourOne)
    /\ worldDay' = IF worldHour + 1 < 24 * HourOne THEN worldDay ELSE worldDay + 1
    /\ last' = Call("timePasses", NoArgs)
    /\ UNCHANGED <<mCurrentRegion, mTimePassed, mFastForward, mWeatherUpdateTime,
                   mTransitionFactor, mCurrentWeather, mNextWeather, mQueuedWeather,
                   mRegions, mFlashBrightness, mTimeSettings, playerCell, value,
                   mMasser, moonAngle, oobDelta, status>>

\* calculateResult asks an interpolator for its value at the hour of the clock
GetValue ==
    /\ \E self \in Interpolators : value' = getValue(self, worldHour, mTimeSettings)
    /\ last' = Call("getValue", NoArgs)
    /\ UNCHANGED <<mCurrentRegion, mTimePassed, mFastForward, mWeatherUpdateTime,
                   mTransitionFactor, mCurrentWeather, mNextWeather, mQueuedWeather,
                   mRegions, mFlashBrightness, mTimeSettings, playerCell, worldHour,
                   worldDay, mMasser, moonAngle, oobDelta, status>>

NextSky == TimePasses \/ GetValue

SpecSky == InitSky /\ [][NextSky]_vars

\* the pairs of keyframes that follow each other in the day
AdjacentKeyframes(self) ==
    { <<self.mNightValue, self.mSunriseValue>>,
      <<self.mSunriseValue, self.mDayValue>>,
      <<self.mDayValue, self.mSunsetValue>>,
      <<self.mSunsetValue, self.mNightValue>> }

\* v, in 1/ValueOne units, is x * (1 - f) + y * f for a factor f within [0, 1]:
\* it lies between x and y
IsBlend(v, x, y) ==
    \/ x * ValueOne <= v /\ v <= y * ValueOne
    \/ y * ValueOne <= v /\ v <= x * ValueOne

\* C20: with time settings that satisfy nightEnd < dayStart <= dayEnd < nightStart,
\* at every hour of the day the value getValue returns is a keyframe value or lies
\* between two keyframes that follow each other (a convex combination of them, with
\* a blend factor within [0, 1]); it is never outside them and never the
\* default-constructed value.
C20_NeverExtrapolates ==
    Ordered(mTimeSettings) =>
       \A self \in Interpolators :
          \E pair \in AdjacentKeyframes(self) :
             IsBlend(getValue(self, worldHour, mTimeSettings), pair[1], pair[2])

-----------------------------------------------------------------------------
(* The moon over the days *)

\* Moons_<name>_Speed of the fallback configuration, in 1/SpeedOne: 0.4, 0.5 and
\* 10, which is above the constructor's limit
MoonSpeeds == {92, 115, 2300}

\* Moons_<name>_Daily_Increment, in quarters of an hour: 1 hour and 1.5 hours
MoonIncrements == {4, 6}

\* the constructor, for a moon of any of these configurations
InitMoon ==
    /\ mCurrentRegion = ""
    /\ mTimePassed = 0
    /\ mFastForward = FALSE
    /\ mWeatherUpdateTime = HoursBetweenWeatherChanges
    /\ mTransitionFactor = 0
    /\ mCurrentWeather = 0
    /\ mNextWeather = invalidWeatherID
    /\ mQueuedWeather = invalidWeatherID
    /\ mRegions = importRegions
    /\ mFlashBrightness = [w \in 0..(NumWeathers - 1) |-> 0]
    /\ mTimeSettings = DefaultTimeSettings
    /\ playerCell = StartCell
    /\ worldHour = 0
    /\ value = 0
    /\ worldDay = 0
    /\ \E speed \in MoonSpeeds, dailyIncrement \in MoonIncrements :
          mMasser = NewMoonModel(speed, dailyIncrement)
    /\ moonAngle = 0
    /\ oobDelta = 0
    /\ status = "running"
    /\ last = [op |-> "WeatherManager", args |-> NoArgs, pre |-> Pre]

\* calculateState asks the moon for its angle at the time of the clock
Angle ==
    /\ moonAngle' = angle(mMasser, worldDay, worldHour)
    /\ last' = Call("angle", NoArgs)
    /\ UNCHANGED <<mCurrentRegion, mTimePassed, mFastForward, mWeatherUpdateTime,
                   mTransitionFactor, mCurrentWeather, mNextWeather, mQueuedWeather,
                   mRegions, mFlashBrightness, mTimeSettings, playerCell, worldHour,
                   value, worldDay, mMasser, oobDelta, status>>

NextMoon == TimePasses \/ Angle

SpecMoon == InitMoon /\ [][NextMoon]_vars

\* quarters of an hour in a day
DayLength == 24 * HourOne

\* the time of the clock, in quarters of an hour since day 0
Now == worldDay * DayLength + worldHour

\* the times at which the moon rises: on every day whose moon rise hour is below 24
RiseTimes(moon) ==
    { day * DayLength + moonRiseHour(moon, day) :
        day \in { d \in (-3)..(MaxDay + 1) : moonRiseHour(moon, d) < DayLength } }

\* the latest moonrise up to time t
LastRise(moon, t) ==
    CHOOSE r \in RiseTimes(moon) :
       /\ r <= t
       /\ \A later \in RiseTimes(moon) : later <= t => later <= r

\* at time t the moon has not yet travelled the 180 degrees since its latest rise
Up(moon, t) == rotation(moon, t - LastRise(moon, t)) < HalfTurn

\* MoonModel::angle at time t
AngleAt(moon, t) == angle(moon, t \div DayLength, t % DayLength)

\* C21: the angle returned is never 180 degrees or more; and for a moon with speed
\* above 0, from one quarter of an hour to the next within one span from a moonrise
\* to the moonset that follows it (no new moonrise in between, 180 degrees not yet
\* travelled, midnights included), the angle returned does not decrease.
C21_AngleBelowHalfTurnAndRising ==
    /\ angle(mMasser, worldDay, worldHour) < HalfTurn
    /\ ( /\ mMasser.mSpeed > 0
         /\ Up(mMasser, Now)
         /\ Up(mMasser, Now + 1)
         /\ LastRise(mMasser, Now + 1) = LastRise(mMasser, Now) )
       => AngleAt(mMasser, Now + 1) >= AngleAt(mMasser, Now)

\* the weather a snap lands on from manager s: the queued one if one is queued, else
\* the next one if there is one, else the current one
SnapTarget(s) ==
    IF s.mQueuedWeather # invalidWeatherID THEN s.mQueuedWeather
    ELSE IF s.mNextWeather # invalidWeatherID THEN s.mNextWeather
    ELSE s.mCurrentWeather

\* C22 as stated: after an unpaused update tick the fast-forward flag is false; and a
\* tick that starts with the flag set or with no transition in progress ends with
\* next and queued invalid and current equal to the weather queued at the time of the
\* snap, else the next one at that time, else unchanged.
C22_TickSnapsFromItsStart ==
    \A duration \in Durations, chance \in Rolls, garbage \in Garbage :
       LET s == updateAdds(Self, playerCell, chance)
           m == update(Self, playerCell, duration, FALSE, chance, garbage)
       IN /\ ~m.mFastForward
          /\ (mFastForward \/ ~inTransition(Self)) =>
                /\ m.mNextWeather = invalidWeatherID
                /\ m.mQueuedWeather = invalidWeatherID
                /\ m.mCurrentWeather = SnapTarget(s)

\* C22 as the code has it: after an unpaused update tick the fast-forward flag is
\* false; and a tick that starts with the flag set, or in which no transition is in
\* progress once the tick has added the one its timer expiry or the player's change
\* of region calls for, ends with next and queued invalid and current equal to the
\* weather queued at the time of the snap, else the next one at that time, else
\* unchanged.
C22_TickSnapsAfterAdding ==
    \A duration \in Durations, chance \in Rolls, garbage \in Garbage :
       LET s == updateAdds(Self, playerCell, chance)
           m == update(Self, playerCell, duration, FALSE, chance, garbage)
       IN /\ ~m.mFastForward
          /\ (mFastForward \/ ~inTransition(s)) =>
                /\ m.mNextWeather = invalidWeatherID
                /\ m.mQueuedWeather = invalidWeatherID
                /\ m.mCurrentWeather = SnapTarget(s)

\* an unpaused tick found the fast-forward flag set and a weather queued behind a
\* running transition, and snapped to the queued weather
C22_Witness ==
    /\ last.op = "update"
    /\ ~last.args.paused
    /\ last.pre.mFastForward
    /\ last.pre.mNextWeather # invalidWeatherID
    /\ last.pre.mQueuedWeather # invalidWeatherID
    /\ last.pre.mQueuedWeather # last.pre.mNextWeather
    /\ mCurrentWeather = last.pre.mQueuedWeather
    /\ mNextWeather = invalidWeatherID
    /\ mQueuedWeather = invalidWeatherID
    /\ ~mFastForward

\* C23: for a region whose chance table sums to less than 100, every draw that
\* exceeds the sum makes chooseNewWeather select the last index of the table.
C23_DeficitSelectsLastIndex ==
    \A id \in DOMAIN mRegions :
       LET rw == mRegions[id]
       IN SumOf(rw.mChances) < 100 =>
             \A chance \in DiceRolls :
                chance > SumOf(rw.mChances) =>
                   chooseNewWeather(rw, chance).mWeather = Len(rw.mChances) - 1

\* regionID names the region of the player's cell, and the manager knows that region
PlayersRegion(regionID) ==
    /\ LowerCase(regionID) = LowerCase(playerCell.mRegion)
    /\ LowerCase(regionID) \in DOMAIN mRegions

\* C24: while a transition is in progress and another weather is queued,
\* changeWeather for the player's region with any valid weather id leaves that id
\* as the queued weather.
C24_ChangeWeatherOverwritesQueued ==
    (inTransition(Self) /\ mQueuedWeather # invalidWeatherID) =>
       \A regionID \in RegionArgs, weatherID \in 0..(NumWeathers - 1) :
          PlayersRegion(regionID) =>
             changeWeather(Self, playerCell, regionID, weatherID).mQueuedWeather
                = weatherID

\* C25: when no transition is in progress and changeWeather is called for the
\* player's region with one valid weather and then, with no tick between, with
\* another, only the last call is processed: the manager is left transitioning to
\* the last requested weather alone (to nothing if that is the current weather), and
\* the unpaused tick that follows does not make the first call's weather current.
C25_OnlyLastChangeWeatherProcessed ==
    ~inTransition(Self) =>
       \A regionID \in RegionArgs :
          PlayersRegion(regionID) =>
             \A first, second \in 0..(NumWeathers - 1) :
                (first # second /\ first # mCurrentWeather) =>
                   LET m1 == changeWeather(Self, playerCell, regionID, first)
                       m2 == changeWeather(m1, playerCell, regionID, second)
                   IN /\ m2.mNextWeather = IF second = mCurrentWeather
                                           THEN invalidWeatherID ELSE second
                      /\ m2.mQueuedWeather = invalidWeatherID
                      /\ \A duration \in Durations, chance \in Rolls, garbage \in Garbage :
                            update(m2, playerCell, duration, FALSE, chance, garbage)
                               .mCurrentWeather # first

\* C26: modRegion for the player's region with a table that gives the manager's
\* current weather a chance other than 0 leaves the current, next and queued weather
\* as they were, in every reachable state and for every draw.
C26_ModRegionKeepsSupportedWeather ==
    \A regionID \in RegionArgs, chances \in ModTables, chance \in Rolls :
       (PlayersRegion(regionID) /\ Supported(chances, mCurrentWeather)) =>
          LET m == modRegion(Self, playerCell, regionID, chances, chance)
          IN /\ m.mCurrentWeather = mCurrentWeather
             /\ m.mNextWeather = mNextWeather
             /\ m.mQueuedWeather = mQueuedWeather

\* spellings of the ids of the store's regions
KnownRegionArgs == {"A", "a", "B", "b"}

\* C27: changeWeather with a valid weather id for a region the manager knows and the
\* player's cell is not in stores the id as that region's selection and changes
\* nothing else: not the current, next or queued weather, the transition factor, the
\* timers or the tracked region, and no other region's selection or chances.
C27_ChangeWeatherElsewhereOnlyStores ==
    \A regionID \in KnownRegionArgs, weatherID \in 0..(NumWeathers - 1) :
       (/\ LowerCase(regionID) \in DOMAIN mRegions
        /\ LowerCase(regionID) # LowerCase(playerCell.mRegion)) =>
          changeWeather(Self, playerCell, regionID, weatherID)
             = [Self EXCEPT !.mRegions[LowerCase(regionID)].mWeather = weatherID]

\* changeWeather named region A while the player, who had left it during a transition,
\* was elsewhere: the region's selection is the new weather and the transition
\* goes on with nothing queued
C27_Witness ==
    /\ last.op = "changeWeather"
    /\ last.args.regionID = "A"
    /\ last.args.weatherID = 9
    /\ LowerCase(playerCell.mRegion) # "a"
    /\ mCurrentRegion = "a"
    /\ last.pre.mNextWeather = 1
    /\ "a" \in DOMAIN mRegions
    /\ mRegions["a"].mWeather = 9
    /\ mNextWeather = 1
    /\ mQueuedWeather = invalidWeatherID

\* the fields of a result that are never blended
Discrete(result) ==
    [mIsStorm            |-> result.mIsStorm,
     mParticleEffect     |-> result.mParticleEffect,
     mRainEffect         |-> result.mRainEffect,
     mRainSpeed          |-> result.mRainSpeed,
     mRainFrequency      |-> result.mRainFrequency,
     mAmbientLoopSoundID |-> result.mAmbientLoopSoundID]

\* 1 - mTransitionFactor, the factor calculateTransitionResult is called with
Blend == FactorOne - mTransitionFactor

\* a transition between two weathers of mWeatherSettings is in progress
BlendingConfigured ==
    /\ inTransition(Self)
    /\ InRange(mCurrentWeather)
    /\ InRange(mNextWeather)

\* C28: during a transition the storm flag, the particle effect, the rain effect,
\* the rain speed and frequency and the ambient loop sound id of the result are all
\* those of the current weather while the blend 1 - mTransitionFactor is below 0.5,
\* and all those of the next weather once it is 0.5 or more.
C28_DiscreteFieldsFromOneSide ==
    BlendingConfigured =>
       Discrete(WeatherResult(Self))
          = Discrete(calculateResult(IF 2 * Blend < FactorOne
                                     THEN mCurrentWeather ELSE mNextWeather))

\* an unpaused update in an exterior cell brought a transition into the blizzard to
\* its midpoint exactly and computed the result: storm, particles and loop sound are
\* the blizzard's
C28_Witness ==
    /\ last.op = "update"
    /\ ~last.args.paused
    /\ playerCell.exterior
    /\ mNextWeather = 9
    /\ mCurrentWeather \in {0, 1}
    /\ 2 * Blend = FactorOne
    /\ WeatherResult(Self).mIsStorm
    /\ WeatherResult(Self).mAmbientLoopSoundID = "BM Blizzard"
    /\ WeatherResult(Self).mParticleEffect = ParticleEffect(9)

\* C29 as stated: during a transition whose blend 1 - mTransitionFactor is below 0.5,
\* the ambient sound volume and the effect fade of the result ramp from 0 up to 1:
\* both are twice the blend.
C29_FirstHalfRampsUp ==
    (BlendingConfigured /\ 2 * Blend < FactorOne) =>
       /\ WeatherResult(Self).mAmbientSoundVolume = 2 * Blend
       /\ WeatherResult(Self).mEffectFade = 2 * Blend

\* C29 as the code has it: during a transition whose blend 1 - mTransitionFactor is
\* below 0.5, the ambient sound volume and the effect fade of the result ramp from 1
\* down to 0, fading out the current weather: both are 1 minus twice the blend.
C29_FirstHalfFadesOut ==
    (BlendingConfigured /\ 2 * Blend < FactorOne) =>
       /\ WeatherResult(Self).mAmbientSoundVolume = FactorOne - 2 * Blend
       /\ WeatherResult(Self).mEffectFade = FactorOne - 2 * Blend

\* an unpaused update in an exterior cell brought a transition a quarter of its way
\* and computed the result: volume and fade are down to one half
C29_Witness ==
    /\ last.op = "update"
    /\ ~last.args.paused
    /\ playerCell.exterior
    /\ BlendingConfigured
    /\ 4 * Blend = FactorOne
    /\ 2 * WeatherResult(Self).mAmbientSoundVolume = FactorOne
    /\ 2 * WeatherResult(Self).mEffectFade = FactorOne

\* transition ratios calculateThunder is called with, from 0 to 1
Ratios == 0..FactorOne

\* the larger of brightness - decrement and 0
Lowered(brightness, decrement) ==
    IF brightness - decrement > 0 THEN brightness - decrement ELSE 0

\* C30: no weather's flash brightness is negative in any reachable state.  An
\* unpaused calculateThunder on a weather whose frequency is above 0, with a
\* transition ratio at or above its threshold, first lowers the brightness by the
\* flash decrement times the elapsed seconds, but not below 0 (a strike then adds its
\* flash to that); with a ratio below the threshold, or a frequency of 0 or less, it
\* sets the brightness to exactly 0.
C30_FlashNeverNegative ==
    \A w \in 0..(NumWeathers - 1) :
       /\ mFlashBrightness[w] >= 0
       /\ \A ratio \in Ratios, elapsedSeconds \in Durations, strike \in StrikeRolls :
             LET after == calculateThunder(Self, w, ratio, elapsedSeconds, FALSE, strike)
                 lowered == Lowered(mFlashBrightness[w],
                                    FlashDecrement(w) * elapsedSeconds)
             IN /\ after.ret = after.m.mFlashBrightness[w]
                /\ IF ratio >= ThunderThreshold(w) /\ ThunderFrequency(w) > 0
                   THEN after.ret = IF strike = NoStrike THEN lowered
                                    ELSE lowered + (FlashOne - strike)
                   ELSE after.ret = 0

\* an unpaused update in an exterior cell left the thunderstorm brighter than one
\* strike makes it: the glow of an earlier strike was lowered, not to 0, and a new
\* strike was added
C30_Witness ==
    /\ last.op = "update"
    /\ ~last.args.paused
    /\ playerCell.exterior
    /\ mCurrentWeather = 5
    /\ mFlashBrightness[5] > FlashOne

\* C31: whenever no transition is in progress (the next weather is invalidWeatherID)
\* at the end of an operation, the transition factor is 0; so also after the update
\* tick that fast-forwarded a transition.
C31_StableFactorIsZero ==
    ~inTransition(Self) => mTransitionFactor = 0

\* C32: after every unpaused update tick made while the player's cell has a region
\* id that is not empty, the tracked region mCurrentRegion is the lower-cased region
\* of the player's cell, also when the weather-update timer expired in that tick.
C32_TickTracksPlayersRegion ==
    (/\ last.op = "update"
     /\ ~last.args.paused
     /\ playerCell.mRegion # "") =>
       mCurrentRegion = LowerCase(playerCell.mRegion)

\* advanceTime with a skip of up to MaxSkip hours: waiting, travelling, jail
TimeSkip(hours, incremental) ==
    /\ status = "running"
    /\ mTimePassed + hours <= MaxSkip
    /\ mWeatherUpdateTime - (mTimePassed + hours) >= -MaxSkipDebt
    /\ \E m \in {advanceTime(Self, hours, incremental)} : Returns(m)
    /\ last' = Call("advanceTime",
                    [NoArgs EXCEPT !.incremental = incremental])
    /\ UNCHANGED <<mTimeSettings, playerCell, worldHour, value, worldDay, mMasser,
                   moonAngle, oobDelta>>

\* a game with long time skips: the player walks, waits, and a new game is started
NextSkips ==
    \/ \E hours \in 1..MaxSkip, incremental \in BOOLEAN : TimeSkip(hours, incremental)
    \/ \E cell \in Cells : PlayerMoves(cell)
    \/ \E duration \in Durations, paused \in BOOLEAN : Update(duration, paused)
    \/ Clear

SpecSkips == Init /\ [][NextSkips]_vars

\* C33: after every unpaused update tick the weather-update timer is above 0,
\* whatever time advanceTime had accumulated before the tick.
C33_TimerPositiveAfterTick ==
    (last.op = "update" /\ ~last.args.paused) => mWeatherUpdateTime > 0

\* every region's chance table has no negative entry and sums to 100
AllTablesSumTo100 == \A id \in DOMAIN mRegions : SumsTo100(mRegions[id].mChances)

\* the draws of rollDice(100) + 1 at the ends of its range, with those of Rolls
EdgeRolls == {1, 100} \cup Rolls

\* C34: while every region's chance table has no negative entry and sums to 100 and
\* no state has been loaded from a record, no call of changeWeather, modRegion or
\* update violates the assert of addWeatherTransition (the weather id is at least 0
\* and below the number of weathers), and no earlier call has; the lowest and
\* the highest draw of chooseNewWeather from a region's table give such an id.
C34_TransitionAssertHolds ==
    AllTablesSumTo100 =>
       /\ status = "running"
       /\ \A id \in DOMAIN mRegions, chance \in EdgeRolls :
             InRange(chooseNewWeather(mRegions[id], chance).mWeather)
       /\ \A regionID \in RegionArgs, weatherID \in WeatherArgs :
             ~changeWeather(Self, playerCell, regionID, weatherID).assertFailed
       /\ \A regionID \in RegionArgs, chances \in ModTables, chance \in Rolls :
             LET m == modRegion(Self, playerCell, regionID, chances, chance)
             IN (\A id \in DOMAIN m.mRegions : SumsTo100(m.mRegions[id].mChances)) =>
                   ~m.assertFailed
       /\ \A duration \in Durations, paused \in BOOLEAN, chance \in Rolls,
             garbage \in Garbage :
             ~update(Self, playerCell, duration, paused, chance, garbage).assertFailed

\* modRegion redrew the weather of the player's region from a table summing to 100
\* and passed it to addWeatherTransition, which queued it behind the running transition
C34_Witness ==
    /\ last.op = "modRegion"
    /\ status = "running"
    /\ AllTablesSumTo100
    /\ last.pre.mNextWeather # invalidWeatherID
    /\ last.pre.mQueuedWeather = invalidWeatherID
    /\ mQueuedWeather # invalidWeatherID
    /\ InRange(mQueuedWeather)

\* C35: whenever no transition is in progress right after an unpaused update tick and
\* the tracked region is a region the manager knows whose selection is not
\* invalidWeatherID, the current weather is that region's selection.
C35_StableWeatherIsRegionsSelection ==
    (/\ last.op = "update"
     /\ ~last.args.paused
     /\ ~inTransition(Self)
     /\ mCurrentRegion \in DOMAIN mRegions
     /\ mRegions[mCurrentRegion].mWeather # invalidWeatherID) =>
       mCurrentWeather = mRegions[mCurrentRegion].mWeather

\* C36: the ambient sound volume and the effect fade of the result an update computes
\* in an exterior cell lie within [0, 1], whatever the state of the transition and
\* the elapsed time of the tick, also when the tick promoted a queued weather with
\* carried-over overshoot time.
C36_VolumeAndFadeWithinUnit ==
    (/\ last.op = "update"
     /\ playerCell.exterior
     /\ InRange(mCurrentWeather)
     /\ inTransition(Self) => InRange(mNextWeather)) =>
       /\ WeatherResult(Self).mAmbientSoundVolume >= 0
       /\ WeatherResult(Self).mAmbientSoundVolume <= FactorOne
       /\ WeatherResult(Self).mEffectFade >= 0
       /\ WeatherResult(Self).mEffectFade <= FactorOne

====
